---- MODULE Spec2Model ----
(***************************************************************************)
(* Model of the Noah's Ark simulation engine (core/engine.py, core/ark.py, *)
(* core/cell.py, core/sight.py, core/player.py, core/runner.py).           *)
(*                                                                         *)
(* Positions are floats in the source.  The model keeps them on a lattice  *)
(* of Sub points per grid cell: a lattice coordinate p stands for the real *)
(* coordinate p / Sub, so int(x) is p \div Sub and a squared real distance *)
(* d2 is the squared lattice distance divided by Sub * Sub.                *)
(***************************************************************************)
EXTENDS Integers, Sequences, FiniteSets, TLC

\* ------------------------------------------------------------------ bounds
\* grid width and height in cells (c.X, c.Y scaled down)
X == 2
Y == 1
\* lattice points per cell and axis
Sub == 2
\* args.num_helpers: helper 0 is Noah
NumHelpers == 3
\* args.time: the configured number of turns
Time == 3
\* args.animals: one species with this many animals
Population == 3
\* c.MAX_FLOCK_SIZE scaled down so that a full flock is reached
MAX_FLOCK_SIZE == 2
\* the ark contents the score is computed on: species and animals at most
MaxScoreSpecies == 2
MaxScoreAnimals == 5
\* grid width and height in cells for the sight and the message exchange
WideX == 6
WideY == 6
\* the number of times a strategy iterates over one Sight
MaxIterations == 2

\* --------------------------------------------------------------- constants
\* core/constants.py is not part of the sources; values follow the spec
MAX_DISTANCE_KM == 1
MAX_SIGHT_KM == 5
SCORE_FOR_BOTH_GENDERS_SAVED == 10
SCORE_FOR_EITHER_GENDER_SAVED == 5
ONE_BYTE == 256

\* args.ark: the ark's cell coordinate
ArkCell == <<0, 0>>
\* args.animals
AnimalCounts == <<Population>>

Helpers == 0 .. NumHelpers - 1
Cells == (0 .. X - 1) \X (0 .. Y - 1)
Points == (0 .. X * Sub - 1) \X (0 .. Y * Sub - 1)

\* Kind.Noah for id 0, Kind.Helper otherwise
KindOf(id) == IF id = 0 THEN "Noah" ELSE "Helper"

\* float(ark_x), float(ark_y) on the lattice
ArkPoint == <<ArkCell[1] * Sub, ArkCell[2] * Sub>>

\* int(x), int(y) of a position
CellOf(p) == <<p[1] \div Sub, p[2] \div Sub>>

Abs(n) == IF n < 0 THEN -n ELSE n

RECURSIVE SumSeq(_)
SumSeq(s) == IF s = <<>> THEN 0 ELSE Head(s) + SumSeq(Tail(s))

\* setup_engine creates a male, a female and count - 2 more per species
GroupSize(count) == IF count < 2 THEN 2 ELSE count

GroupSizes(counts) == [i \in 1 .. Len(counts) |-> GroupSize(counts[i])]

RECURSIVE SpeciesOfFrom(_, _, _)
SpeciesOfFrom(a, sid, sizes) ==
    IF a <= Head(sizes) THEN sid
    ELSE SpeciesOfFrom(a - Head(sizes), sid + 1, Tail(sizes))

\* species_id of the a-th created animal (creation is species by species)
SpeciesOf(a, counts) == SpeciesOfFrom(a, 0, GroupSizes(counts))

\* identity of the first animal created for a species
FirstOf(sid, counts) == 1 + SumSeq(SubSeq(GroupSizes(counts), 1, sid))

\* the Animal objects setup_engine can create for args.animals = counts:
\* identity -> fields, the genders past the first two of a species random
GeneratedAnimals(counts) ==
    LET ids == 1 .. SumSeq(GroupSizes(counts))
    IN  {[a \in ids |-> [species_id |-> SpeciesOf(a, counts), gender |-> g[a]]] :
            g \in {f \in [ids -> {"Male", "Female"}] :
                      \A sid \in 0 .. Len(counts) - 1 :
                          /\ f[FirstOf(sid, counts)] = "Male"
                          /\ f[FirstOf(sid, counts) + 1] = "Female"}}

\* species_stats as setup_engine counts it
SpeciesStats(an, counts) ==
    [sid \in 0 .. Len(counts) - 1 |->
        <<Cardinality({a \in DOMAIN an :
              an[a].species_id = sid /\ an[a].gender = "Male"}),
          Cardinality({a \in DOMAIN an :
              an[a].species_id = sid /\ an[a].gender = "Female"})>>]

\* the animals and species of the configured run
Animals == 1 .. SumSeq(GroupSizes(AnimalCounts))
SpeciesIds == 0 .. Len(AnimalCounts) - 1

VARIABLES
    time_elapsed,   \* Engine.time_elapsed
    pc,             \* position in run_simulation / run_turn
    cur,            \* index of the helper the action loop is at
    tracks,         \* whether the player class copies snapshot.position
    animals,        \* the Animal objects: identity -> species_id, gender
    species_stats,  \* Ark.species_stats: species id -> <<males, females>>
    hpos,           \* PlayerInfo.x, PlayerInfo.y per helper (engine-tracked)
    ppos,           \* Player.position per helper (strategy-held)
    flock,          \* PlayerInfo.flock per helper
    cell_animals,   \* Cell.animals per cell
    cell_helpers,   \* Cell.helpers per cell
    free_animals,   \* Engine.free_animals: sequence of <<animal, cell>>
    ark_animals,    \* Ark.animals
    obtained,       \* run_turn's obtained: sequence of <<animal, <<helpers>>>>
    error,          \* the exception that aborted the run, or "none"
    result,         \* the score get_results returned, or -1
    sights,         \* run_turn's sights: helper -> sequence of neighbours
    last_messages,  \* Engine.last_messages: helper id -> byte
    messages_to,    \* run_turn's messages_to: helper -> sequence of Messages
    snap_sight,     \* snapshot.sight, the Sight a strategy holds, or "none"
    call,           \* the last call a strategy made on it, with its outcome
    snapshots,      \* the HelperSurroundingsSnapshot built for each helper
    last_action,    \* run_turn's action, and the helper that returned it
    turn_start,     \* the engine's state when run_turn was last entered
    turns           \* the number of calls of run_turn

vars == <<time_elapsed, pc, cur, tracks, animals, species_stats, hpos, ppos, flock,
          cell_animals, cell_helpers, free_animals, ark_animals, obtained,
          error, result, sights, last_messages, messages_to, snap_sight, call,
          snapshots, last_action, turn_start, turns>>

\* the state of the message exchange and of the Sight a strategy queries
msgvars == <<sights, last_messages, messages_to>>
sightvars == <<snap_sight, call>>
\* what a turn was given and what it was asked, kept for the claims on turns
turnvars == <<snapshots, last_action, turn_start, turns>>

\* the engine's state as run_turn finds it
TurnState ==
    [time_elapsed |-> time_elapsed, hpos |-> hpos, flock |-> flock,
     cell_animals |-> cell_animals, cell_helpers |-> cell_helpers,
     free_animals |-> free_animals, ark_animals |-> ark_animals]

\* no action returned yet
NoAction == [helper |-> -1, action |-> [type |-> "None"]]

\* run_turn not entered yet: nothing found
NoTurnState ==
    [time_elapsed |-> 0, hpos |-> <<>>, flock |-> <<>>, cell_animals |-> <<>>,
     cell_helpers |-> <<>>, free_animals |-> <<>>, ark_animals |-> {}]

\* before the first turn: no snapshot built, no action returned
NoTurn ==
    /\ snapshots = <<>>
    /\ last_action = NoAction
    /\ turn_start = NoTurnState
    /\ turns = 0

\* no call made on the Sight yet; iterated holds what each iteration over the
\* Sight has yielded
NoCall ==
    [method |-> "none", x |-> 0, y |-> 0, ret |-> <<>>, iterated |-> <<>>]

\* ------------------------------------------------------------------ setup
\* ArkRunner.setup_engine and Engine.__init__
Init ==
    /\ time_elapsed = 0
    /\ pc = IF time_elapsed < Time THEN "observe" ELSE "done"
    /\ cur = 0
    /\ tracks \in BOOLEAN
    /\ animals \in GeneratedAnimals(AnimalCounts)
    /\ species_stats = SpeciesStats(animals, AnimalCounts)
    /\ \E placement \in [Animals -> Cells] :
          /\ cell_animals = [c \in Cells |-> {a \in Animals : placement[a] = c}]
          /\ free_animals = [a \in Animals |-> <<a, placement[a]>>]
    /\ hpos = [h \in Helpers |-> ArkPoint]
    /\ ppos = [h \in Helpers |-> ArkPoint]
    /\ flock = [h \in Helpers |-> {}]
    /\ cell_helpers = [c \in Cells |-> IF c = CellOf(ArkPoint) THEN Helpers ELSE {}]
    /\ ark_animals = {}
    /\ obtained = <<>>
    /\ error = "none"
    /\ result = -1
    /\ sights = [h \in Helpers |-> <<>>]
    /\ last_messages = [h \in Helpers |-> "None"]
    /\ messages_to = [h \in Helpers |-> <<>>]
    /\ snap_sight = "none"
    /\ call = NoCall
    /\ NoTurn

\* ------------------------------------------------------- helper predicates
\* Player.is_in_ark, on a position: EPS is below the lattice spacing
is_in_ark(p) == p = ArkPoint

\* can_move_to without the test of the grid's edges
can_move_to_unbounded(k, p, x, y) ==
    /\ k # "Noah"
    /\ (Abs(p[1] - x) * Abs(p[1] - x) + Abs(p[2] - y) * Abs(p[2] - y))
          <= 2 * MAX_DISTANCE_KM * Sub * Sub

\* Player.can_move_to from position p of a helper of kind k
can_move_to(k, p, x, y) ==
    /\ k # "Noah"
    /\ 0 <= x /\ x < X * Sub /\ 0 <= y /\ y < Y * Sub
    /\ (Abs(p[1] - x) * Abs(p[1] - x) + Abs(p[2] - y) * Abs(p[2] - y))
          <= 2 * MAX_DISTANCE_KM * Sub * Sub

\* the Move targets the strategies propose: every lattice x, whole y, and
\* one coordinate past each edge of the grid
MoveTargets ==
    (-1 .. X * Sub) \X {y \in -1 .. Y * Sub : y = -1 \/ y % Sub = 0}

\* the values check_surroundings returns: a byte, and one past the bytes
ByteInputs == {0, ONE_BYTE}

\* Animal has eq=False: an Animal equals itself only.  Animal.copy(True)
\* makes a new object, which is none of the engine's Animals
Redacted(a) == -a

\* the Animal objects a strategy can put in an action: the engine's own,
\* seen unredacted, and the redacted copies its views hold
AnimalObjects == Animals \cup {Redacted(a) : a \in Animals}

\* the Action values a strategy can return

Actions ==
    {[type |-> "None"]}
    \cup {[type |-> "Move", x |-> t[1], y |-> t[2]] : t \in MoveTargets}
    \cup {[type |-> "Obtain", animal |-> a] : a \in AnimalObjects}
    \cup {[type |-> "Release", animal |-> a] : a \in AnimalObjects}

\* index of key k in an insertion-ordered dict, 0 if absent
KeyIndex(d, k) ==
    IF \E i \in 1 .. Len(d) : d[i][1] = k
    THEN CHOOSE i \in 1 .. Len(d) : d[i][1] = k
    ELSE 0

\* d[k] = v on an insertion-ordered dict: in place, or appended
DictSet(d, k, v) ==
    IF KeyIndex(d, k) = 0 THEN Append(d, <<k, v>>)
    ELSE [d EXCEPT ![KeyIndex(d, k)] = <<k, v>>]

\* del d[k]
DictDel(d, k) ==
    LET i == KeyIndex(d, k)
    IN  SubSeq(d, 1, i - 1) \o SubSeq(d, i + 1, Len(d))

\* ------------------------------------------------------------ the turn
\* Player.get_view, PlayerInfo.get_view
PlayerView(h) == [id |-> h, kind |-> KindOf(h)]

\* Message(from_helper, contents)
Message(h, one_byte_message) ==
    [from_helper |-> PlayerView(h), contents |-> one_byte_message]

\* Player.distance between two positions, squared, in lattice units
distance(p, q) ==
    Abs(q[1] - p[1]) * Abs(q[1] - p[1]) + Abs(q[2] - p[2]) * Abs(q[2] - p[2])

\* _get_sights that records a pair for its first helper only
RECURSIVE SightsFrom_one_way(_, _, _, _)
SightsFrom_one_way(i, j, pos, in_sight) ==
    IF i > NumHelpers - 1 THEN in_sight
    ELSE IF j > NumHelpers - 1 THEN SightsFrom_one_way(i + 1, i + 2, pos, in_sight)
    ELSE SightsFrom_one_way(i, j + 1, pos,
            IF distance(pos[i], pos[j])
                  <= MAX_SIGHT_KM * MAX_SIGHT_KM * Sub * Sub
            THEN [in_sight EXCEPT ![i] = Append(@, j)]
            ELSE in_sight)

\* the loops of _get_sights from the pair (i, j) on, over the positions pos
\* the Player objects hold
RECURSIVE SightsFrom(_, _, _, _)
SightsFrom(i, j, pos, in_sight) ==
    IF i > NumHelpers - 1 THEN in_sight
    ELSE IF j > NumHelpers - 1 THEN SightsFrom(i + 1, i + 2, pos, in_sight)
    ELSE SightsFrom(i, j + 1, pos,
            IF distance(pos[i], pos[j])
                  <= MAX_SIGHT_KM * MAX_SIGHT_KM * Sub * Sub
            THEN [in_sight EXCEPT ![i] = Append(@, j), ![j] = Append(@, i)]
            ELSE in_sight)

\* Engine._get_sights
get_sights(pos) == SightsFrom(0, 1, pos, [h \in Helpers |-> <<>>])

\* d[k] = v on a dict with integer keys
DictPut(d, k, v) ==
    [x \in (DOMAIN d) \cup {k} |-> IF x = k THEN v ELSE d[x]]

\* "for neighbor in sights[helper]: messages_to[neighbor].append(msg)"
RECURSIVE Broadcast(_, _, _)
Broadcast(neighbors, msg, mt) ==
    IF neighbors = <<>> THEN mt
    ELSE Broadcast(Tail(neighbors), msg,
                   [mt EXCEPT ![Head(neighbors)] = Append(@, msg)])

\* the observation loop from helper h on: bytes[h] is what check_surroundings
\* of helper h returns, in_sight the result of _get_sights; st holds the
\* strategy-held positions, last_messages and messages_to as the loop
\* changes them, and the exception raised
RECURSIVE ObserveFrom(_, _, _, _)
ObserveFrom(h, bytes, in_sight, st) ==
    IF h > NumHelpers - 1 THEN st
    ELSE
      LET one_byte_message == bytes[h]
          called == [st EXCEPT !.ppos[h] = IF tracks THEN hpos[h] ELSE @]
      IN  IF ~(0 <= one_byte_message /\ one_byte_message < ONE_BYTE)
          THEN [called EXCEPT !.error = "bad_message"]
          ELSE ObserveFrom(h + 1, bytes, in_sight,
                 [called EXCEPT
                    !.last_messages = DictPut(@, h, one_byte_message),
                    !.messages_to =
                        Broadcast(in_sight[h], Message(h, one_byte_message), @)])

\* run_turn up to the end of the observation loop, the strategies returning
\* bytes out of inputs
Observe(inputs) ==
    /\ pc = "observe"
    /\ \E bytes \in [Helpers -> inputs] :
          LET in_sight == get_sights(ppos)
              st == ObserveFrom(0, bytes, in_sight,
                        [ppos |-> ppos,
                         last_messages |-> [x \in {} |-> 0],
                         messages_to |-> [h \in Helpers |-> <<>>],
                         error |-> "none"])
          IN  /\ sights' = in_sight
              /\ ppos' = st.ppos
              /\ last_messages' = st.last_messages
              /\ messages_to' = st.messages_to
              /\ error' = st.error
              /\ IF st.error = "none"
                 THEN pc' = "act" /\ obtained' = <<>> /\ cur' = 0
                 ELSE pc' = "aborted" /\ UNCHANGED <<obtained, cur>>
    /\ UNCHANGED sightvars
    /\ UNCHANGED <<time_elapsed, tracks, animals, species_stats, hpos, flock, cell_animals,
                   cell_helpers, free_animals, ark_animals, result>>

ObservePhase ==
    /\ Observe(ByteInputs)
    /\ UNCHANGED turnvars

\* a raise inside run_turn: the run stops where it is
Fatal(kind) ==
    /\ pc' = "aborted"
    /\ error' = kind
    /\ UNCHANGED <<msgvars, sightvars>>
    /\ UNCHANGED <<time_elapsed, cur, tracks, animals, species_stats, hpos, ppos, flock,
                   cell_animals, cell_helpers, free_animals, ark_animals,
                   obtained, result>>

\* the action loop moves on to the next helper, or to obtain resolution
NextHelper ==
    /\ IF cur = NumHelpers - 1
       THEN pc' = "resolve" /\ cur' = cur
       ELSE pc' = "act" /\ cur' = cur + 1
    /\ UNCHANGED <<msgvars, sightvars>>
    /\ UNCHANGED <<time_elapsed, tracks, animals, species_stats, ppos, error, result>>

ApplyNone(h) ==
    /\ NextHelper
    /\ UNCHANGED <<hpos, flock, cell_animals, cell_helpers, free_animals,
                   ark_animals, obtained>>

\* Release that leaves the animal in the flock
ApplyRelease_keeps_flock(h, a) ==
    LET cell == CellOf(hpos[h])
    IN  IF a \notin flock[h]
        THEN Fatal("release_not_in_flock")
        ELSE /\ free_animals' = DictSet(free_animals, a, cell)
             /\ cell_animals' = [cell_animals EXCEPT ![cell] = @ \cup {a}]
             /\ NextHelper
             /\ UNCHANGED <<hpos, flock, cell_helpers, ark_animals, obtained>>

\* Release that puts the animal in the cell without recording it
ApplyRelease_unindexed(h, a) ==
    LET cell == CellOf(hpos[h])
    IN  IF a \notin flock[h]
        THEN Fatal("release_not_in_flock")
        ELSE /\ flock' = [flock EXCEPT ![h] = @ \ {a}]
             /\ cell_animals' = [cell_animals EXCEPT ![cell] = @ \cup {a}]
             /\ NextHelper
             /\ UNCHANGED <<hpos, cell_helpers, free_animals, ark_animals,
                            obtained>>

\* Release into the cell of the position the strategy holds
ApplyRelease_player_cell(h, a) ==
    LET cell == CellOf(ppos[h])
    IN  IF a \notin flock[h]
        THEN Fatal("release_not_in_flock")
        ELSE /\ flock' = [flock EXCEPT ![h] = @ \ {a}]
             /\ free_animals' = DictSet(free_animals, a, cell)
             /\ cell_animals' = [cell_animals EXCEPT ![cell] = @ \cup {a}]
             /\ NextHelper
             /\ UNCHANGED <<hpos, cell_helpers, ark_animals, obtained>>

ApplyRelease(h, a) ==
    LET cell == CellOf(hpos[h])
    IN  IF a \notin flock[h]
        THEN Fatal("release_not_in_flock")
        ELSE /\ flock' = [flock EXCEPT ![h] = @ \ {a}]
             /\ free_animals' = DictSet(free_animals, a, cell)
             /\ cell_animals' = [cell_animals EXCEPT ![cell] = @ \cup {a}]
             /\ NextHelper
             /\ UNCHANGED <<hpos, cell_helpers, ark_animals, obtained>>

\* Obtain whose capacity test is > instead of >=
ApplyObtain_off_by_one(h, a) ==
    LET helper_cell == CellOf(hpos[h])
        i == KeyIndex(obtained, a)
    IN  IF Cardinality(flock[h]) > MAX_FLOCK_SIZE
        THEN Fatal("obtain_full_flock")
        ELSE IF a \notin cell_animals[helper_cell]
        THEN Fatal("obtain_not_in_cell")
        ELSE /\ obtained' = IF i = 0
                            THEN Append(obtained, <<a, <<h>>>>)
                            ELSE [obtained EXCEPT ![i] = <<a, Append(@[2], h)>>]
             /\ NextHelper
             /\ UNCHANGED <<hpos, flock, cell_animals, cell_helpers,
                            free_animals, ark_animals>>

\* Obtain that accepts a free animal of any cell
ApplyObtain_any_cell(h, a) ==
    LET helper_cell == CellOf(hpos[h])
        i == KeyIndex(obtained, a)
    IN  IF Cardinality(flock[h]) >= MAX_FLOCK_SIZE
        THEN Fatal("obtain_full_flock")
        ELSE IF \A c \in Cells : a \notin cell_animals[c]
        THEN Fatal("obtain_not_in_cell")
        ELSE /\ obtained' = IF i = 0
                            THEN Append(obtained, <<a, <<h>>>>)
                            ELSE [obtained EXCEPT ![i] = <<a, Append(@[2], h)>>]
             /\ NextHelper
             /\ UNCHANGED <<hpos, flock, cell_animals, cell_helpers,
                            free_animals, ark_animals>>

\* Obtain without the capacity test
ApplyObtain_unbounded(h, a) ==
    LET helper_cell == CellOf(hpos[h])
        i == KeyIndex(obtained, a)
    IN  IF a \notin cell_animals[helper_cell]
        THEN Fatal("obtain_not_in_cell")
        ELSE /\ obtained' = IF i = 0
                            THEN Append(obtained, <<a, <<h>>>>)
                            ELSE [obtained EXCEPT ![i] = <<a, Append(@[2], h)>>]
             /\ NextHelper
             /\ UNCHANGED <<hpos, flock, cell_animals, cell_helpers,
                            free_animals, ark_animals>>

ApplyObtain(h, a) ==
    LET helper_cell == CellOf(hpos[h])
        i == KeyIndex(obtained, a)
    IN  IF Cardinality(flock[h]) >= MAX_FLOCK_SIZE
        THEN Fatal("obtain_full_flock")
        ELSE IF a \notin cell_animals[helper_cell]
        THEN Fatal("obtain_not_in_cell")
        ELSE /\ obtained' = IF i = 0
                            THEN Append(obtained, <<a, <<h>>>>)
                            ELSE [obtained EXCEPT ![i] = <<a, Append(@[2], h)>>]
             /\ NextHelper
             /\ UNCHANGED <<hpos, flock, cell_animals, cell_helpers,
                            free_animals, ark_animals>>

\* Move whose unload replaces the ark's animals instead of adding to them
ApplyMove_replaces_ark(h, x, y) ==
    LET target_cell == <<x \div Sub, y \div Sub>>
        curr_cell == CellOf(hpos[h])
    IN  IF ~can_move_to(KindOf(h), ppos[h], x, y)
        THEN Fatal("illegal_move")
        ELSE /\ cell_helpers' =
                    IF target_cell # curr_cell
                    THEN [cell_helpers EXCEPT ![curr_cell] = @ \ {h},
                                              ![target_cell] = @ \cup {h}]
                    ELSE cell_helpers
             /\ hpos' = [hpos EXCEPT ![h] = <<x, y>>]
             /\ IF is_in_ark(ppos[h])
                THEN /\ ark_animals' = flock[h]
                     /\ flock' = [flock EXCEPT ![h] = {}]
                ELSE UNCHANGED <<ark_animals, flock>>
             /\ NextHelper
             /\ UNCHANGED <<cell_animals, free_animals, obtained>>

ApplyMove(h, x, y) ==
    LET target_cell == <<x \div Sub, y \div Sub>>
        curr_cell == CellOf(hpos[h])
    IN  IF ~can_move_to(KindOf(h), ppos[h], x, y)
        THEN Fatal("illegal_move")
        ELSE /\ cell_helpers' =
                    IF target_cell # curr_cell
                    THEN [cell_helpers EXCEPT ![curr_cell] = @ \ {h},
                                              ![target_cell] = @ \cup {h}]
                    ELSE cell_helpers
             /\ hpos' = [hpos EXCEPT ![h] = <<x, y>>]
             /\ IF is_in_ark(ppos[h])
                THEN /\ ark_animals' = ark_animals \cup flock[h]
                     /\ flock' = [flock EXCEPT ![h] = {}]
                ELSE UNCHANGED <<ark_animals, flock>>
             /\ NextHelper
             /\ UNCHANGED <<cell_animals, free_animals, obtained>>

\* the action loop without the test of Noah's action
GetAction_noah_unchecked ==
    /\ pc = "act"
    /\ \E action \in Actions :
          CASE action.type = "None" -> ApplyNone(cur)
            [] action.type = "Release" -> ApplyRelease(cur, action.animal)
            [] action.type = "Obtain" -> ApplyObtain(cur, action.animal)
            [] action.type = "Move" -> ApplyMove(cur, action.x, action.y)
    /\ UNCHANGED turnvars

\* the action loop that rejects only a Move of Noah
GetAction_noah_move_only ==
    /\ pc = "act"
    /\ \E action \in Actions :
          IF KindOf(cur) = "Noah" /\ action.type = "Move"
          THEN Fatal("noah_acted")
          ELSE CASE action.type = "None" -> ApplyNone(cur)
                 [] action.type = "Release" -> ApplyRelease(cur, action.animal)
                 [] action.type = "Obtain" -> ApplyObtain(cur, action.animal)
                 [] action.type = "Move" -> ApplyMove(cur, action.x, action.y)
    /\ UNCHANGED turnvars

\* the body of the action loop for the action helper cur returned: the test
\* of Noah's action, then the match
Match(action) ==
    IF KindOf(cur) = "Noah" /\ action.type # "None"
    THEN Fatal("noah_acted")
    ELSE CASE action.type = "None" -> ApplyNone(cur)
           [] action.type = "Release" -> ApplyRelease(cur, action.animal)
           [] action.type = "Obtain" -> ApplyObtain(cur, action.animal)
           [] action.type = "Move" -> ApplyMove(cur, action.x, action.y)

\* one iteration of the action loop: get_action of helper cur, called with
\* messages_to[cur], then the match
GetAction ==
    /\ pc = "act"
    /\ \E action \in Actions : Match(action)
    /\ UNCHANGED turnvars

\* the sort key (len(h.flock), h.id) of helper h1 is strictly below that of h2
KeyLess(h1, h2, fl) ==
    \/ Cardinality(fl[h1]) < Cardinality(fl[h2])
    \/ Cardinality(fl[h1]) = Cardinality(fl[h2]) /\ h1 < h2

\* min that returns the first requester
BestHelper_first(his, fl) == his[1]

\* min(his, key=lambda h: (len(h.flock), h.id)): the first minimal element
BestHelper(his, fl) ==
    LET minimal(i) == \A j \in 1 .. Len(his) : ~KeyLess(his[j], his[i], fl)
    IN  his[CHOOSE i \in 1 .. Len(his) :
                /\ minimal(i)
                /\ \A j \in 1 .. i - 1 : ~minimal(j)]

\* resolution that gives the animal to every requester
RECURSIVE ResolveFrom_all(_, _)
ResolveFrom_all(i, st) ==
    IF i > Len(obtained) THEN st
    ELSE
      LET obt_animal == obtained[i][1]
          his == obtained[i][2]
          helper_cell == CellOf(hpos[his[1]])
      IN  ResolveFrom_all(i + 1,
            [st EXCEPT
               !.cell_animals[helper_cell] = @ \ {obt_animal},
               !.free_animals = DictDel(@, obt_animal),
               !.flock = [h \in Helpers |->
                            IF \E k \in 1 .. Len(his) : his[k] = h
                            THEN @[h] \cup {obt_animal} ELSE @[h]]])

\* the obtain-resolution loop from entry i of obtained on; st holds the
\* flocks, cell contents and free-animal index as the loop changes them
RECURSIVE ResolveFrom(_, _)
ResolveFrom(i, st) ==
    IF i > Len(obtained) THEN st
    ELSE
      LET obt_animal == obtained[i][1]
          best_helper == BestHelper(obtained[i][2], st.flock)
          helper_cell == CellOf(hpos[best_helper])
          removed == [st EXCEPT !.cell_animals[helper_cell] = @ \ {obt_animal}]
      IN  IF obt_animal \notin st.cell_animals[helper_cell]
          THEN [st EXCEPT !.error = "KeyError"]
          ELSE IF KeyIndex(st.free_animals, obt_animal) = 0
          THEN [removed EXCEPT !.error = "KeyError"]
          ELSE ResolveFrom(i + 1,
                 [removed EXCEPT
                    !.free_animals = DictDel(@, obt_animal),
                    !.flock[best_helper] = @ \cup {obt_animal}])

\* run_turn's loop over obtained
ResolveObtains ==
    /\ pc = "resolve"
    /\ LET st == ResolveFrom(1, [flock |-> flock, cell_animals |-> cell_animals,
                                 free_animals |-> free_animals, error |-> "none"])
       IN  /\ flock' = st.flock
           /\ cell_animals' = st.cell_animals
           /\ free_animals' = st.free_animals
           /\ error' = st.error
           /\ pc' = IF st.error = "none" THEN "disperse" ELSE "aborted"
    /\ UNCHANGED <<msgvars, sightvars, turnvars>>
    /\ UNCHANGED <<time_elapsed, cur, tracks, animals, species_stats, hpos, ppos, cell_helpers,
                   ark_animals, obtained, result>>

\* the cells Cell.up, Cell.down, Cell.left, Cell.right that exist
Neighbors(cell) ==
    {n \in DOMAIN cell_animals :
        \/ n = <<cell[1], cell[2] - 1>>
        \/ n = <<cell[1], cell[2] + 1>>
        \/ n = <<cell[1] - 1, cell[2]>>
        \/ n = <<cell[1] + 1, cell[2]>>}

\* Cell.get_emptiest_neighbors, on cell contents ca
get_emptiest_neighbors(cell, ca) ==
    {n \in Neighbors(cell) :
        \A m \in Neighbors(cell) : Cardinality(ca[n]) <= Cardinality(ca[m])}

\* the dispersal loop choosing among the neighbours as they were filled when
\* the loop began
RECURSIVE DisperseFrom_initial_counts(_, _)
DisperseFrom_initial_counts(i, st) ==
    IF i > Len(st.free_animals) THEN {st}
    ELSE
      LET animal == st.free_animals[i][1]
          cell == st.free_animals[i][2]
          moved(neighbor) ==
              [cell_animals |->
                   [st.cell_animals EXCEPT ![cell] = @ \ {animal},
                                           ![neighbor] = @ \cup {animal}],
               free_animals |->
                   [st.free_animals EXCEPT ![i] = <<animal, neighbor>>]]
      IN  DisperseFrom_initial_counts(i + 1, st)
          \cup UNION {DisperseFrom_initial_counts(i + 1, moved(n)) :
                         n \in get_emptiest_neighbors(cell, cell_animals)}

\* the dispersal loop from entry i of free_animals on: every outcome the
\* random draws can produce
RECURSIVE DisperseFrom(_, _)
DisperseFrom(i, st) ==
    IF i > Len(st.free_animals) THEN {st}
    ELSE
      LET animal == st.free_animals[i][1]
          cell == st.free_animals[i][2]
          moved(neighbor) ==
              [cell_animals |->
                   [st.cell_animals EXCEPT ![cell] = @ \ {animal},
                                           ![neighbor] = @ \cup {animal}],
               free_animals |->
                   [st.free_animals EXCEPT ![i] = <<animal, neighbor>>]]
      IN  DisperseFrom(i + 1, st)
          \cup UNION {DisperseFrom(i + 1, moved(n)) :
                         n \in get_emptiest_neighbors(cell, st.cell_animals)}

\* run_turn's dispersal loop and the end of the turn
Disperse ==
    /\ pc = "disperse"
    /\ \E st \in DisperseFrom(1, [cell_animals |-> cell_animals,
                                 free_animals |-> free_animals]) :
          /\ cell_animals' = st.cell_animals
          /\ free_animals' = st.free_animals
    /\ time_elapsed' = time_elapsed + 1
    /\ pc' = IF time_elapsed' < Time THEN "observe" ELSE "done"
    /\ sights' = [h \in Helpers |-> <<>>]
    /\ messages_to' = [h \in Helpers |-> <<>>]
    /\ UNCHANGED <<last_messages, sightvars, turnvars>>
    /\ UNCHANGED <<cur, tracks, animals, species_stats, hpos, ppos, flock, cell_helpers,
                   ark_animals, obtained, error, result>>

\* ---------------------------------------------------------------- scoring
\* get_species that never records a female
get_species_male_only(in_ark) ==
    [sid \in DOMAIN species_stats |->
        <<\E a \in in_ark :
              animals[a].species_id = sid /\ animals[a].gender = "Male",
          FALSE>>]

\* Ark.get_species: species id -> <<has_male, has_female>>
get_species(in_ark) ==
    [sid \in DOMAIN species_stats |->
        <<\E a \in in_ark :
              animals[a].species_id = sid /\ animals[a].gender = "Male",
          \E a \in in_ark :
              animals[a].species_id = sid /\ animals[a].gender = "Female">>]

\* get_score with "if" where the code has "elif"
RECURSIVE ScoreFrom_double(_, _)
ScoreFrom_double(sid, species) ==
    IF sid \notin DOMAIN species THEN 0
    ELSE (IF species[sid][1] /\ species[sid][2]
          THEN SCORE_FOR_BOTH_GENDERS_SAVED ELSE 0)
         + (IF species[sid][1] \/ species[sid][2]
            THEN SCORE_FOR_EITHER_GENDER_SAVED ELSE 0)
         + ScoreFrom_double(sid + 1, species)

RECURSIVE ScoreFrom(_, _)
ScoreFrom(sid, species) ==
    IF sid \notin DOMAIN species THEN 0
    ELSE (IF species[sid][1] /\ species[sid][2]
          THEN SCORE_FOR_BOTH_GENDERS_SAVED
          ELSE IF species[sid][1] \/ species[sid][2]
          THEN SCORE_FOR_EITHER_GENDER_SAVED
          ELSE 0)
         + ScoreFrom(sid + 1, species)

\* Ark.get_score
get_score(in_ark) == ScoreFrom(0, get_species(in_ark))

\* Engine.get_results, called when run_simulation's loop ends
GetResults ==
    /\ pc = "done"
    /\ result' = IF \A h \in Helpers : is_in_ark(ppos[h])
                 THEN get_score(ark_animals)
                 ELSE 0
    /\ pc' = "results"
    /\ UNCHANGED <<msgvars, sightvars, turnvars>>
    /\ UNCHANGED <<time_elapsed, cur, tracks, animals, species_stats, hpos, ppos, flock,
                   cell_animals, cell_helpers, free_animals, ark_animals,
                   obtained, error>>

Next ==
    \/ ObservePhase
    \/ GetAction
    \/ ResolveObtains
    \/ Disperse
    \/ GetResults

Spec == Init /\ [][Next]_vars

\* ------------------------------------------------- the turns, one by one
\* c.START_RAIN scaled down so that the rain starts within the run
START_RAIN == 2

\* is_raining with > where the code has >=
is_raining_strict == time_elapsed > Time - START_RAIN

\* Engine.is_raining
is_raining == time_elapsed >= Time - START_RAIN

\* Ark.get_view: the ark's position and a copy of its animals
Ark_get_view == [position |-> ArkPoint, animals |-> ark_animals]

\* a snapshot that numbers the turns from 1
HelperSurroundingsSnapshot_one_based(h) ==
    [time_elapsed |-> time_elapsed + 1,
     is_raining |-> is_raining,
     position |-> hpos[h],
     flock |-> flock[h],
     ark_view |-> IF is_in_ark(ppos[h]) THEN <<Ark_get_view>> ELSE <<>>]

\* the HelperSurroundingsSnapshot run_turn builds for helper h, its Sight and
\* timer left out; ark_view is <<>> for None, <<view>> for a view
HelperSurroundingsSnapshot(h) ==
    [time_elapsed |-> time_elapsed,
     is_raining |-> is_raining,
     position |-> hpos[h],
     flock |-> flock[h],
     ark_view |-> IF is_in_ark(ppos[h]) THEN <<Ark_get_view>> ELSE <<>>]

\* run_turn up to the end of the observation loop, the snapshots kept: the
\* loop reaches a helper when every helper before it returned a byte
ObserveTurn ==
    /\ Observe(ByteInputs)
    /\ snapshots' =
          [h \in {i \in Helpers :
                    \A k \in Helpers : k < i => k \in DOMAIN last_messages'}
             |-> HelperSurroundingsSnapshot(h)]
    /\ turn_start' = TurnState
    /\ turns' = turns + 1
    /\ UNCHANGED last_action

\* one iteration of the action loop, the action kept
GetActionTurn ==
    /\ pc = "act"
    /\ \E action \in Actions :
          /\ Match(action)
          /\ last_action' = [helper |-> cur, action |-> action]
    /\ UNCHANGED <<snapshots, turn_start, turns>>

NextTurn ==
    \/ ObserveTurn
    \/ GetActionTurn
    \/ ResolveObtains
    \/ Disperse
    \/ GetResults

\* setup_engine with the random genders all drawn Male
InitTurn ==
    /\ Init
    /\ \A a \in Animals :
          a > FirstOf(SpeciesOf(a, AnimalCounts), AnimalCounts) + 1
             => animals[a].gender = "Male"

SpecTurn == InitTurn /\ [][NextTurn]_vars

\* -------------------------------------------------- strategies that move
\* the Move targets on every lattice point, and one past each edge
LatticeTargets == (-1 .. X * Sub) \X (-1 .. Y * Sub)

\* the Action values of a strategy that never returns Obtain or Release
MoveActions ==
    {[type |-> "None"]}
    \cup {[type |-> "Move", x |-> t[1], y |-> t[2]] : t \in LatticeTargets}

\* one iteration of the action loop with such a strategy, the action kept
GetActionMove ==
    /\ pc = "act"
    /\ \E action \in MoveActions :
          /\ Match(action)
          /\ last_action' = [helper |-> cur, action |-> action]
    /\ UNCHANGED <<snapshots, turn_start, turns>>

NextMove ==
    \/ ObservePhase
    \/ GetActionMove
    \/ ResolveObtains
    \/ Disperse
    \/ GetResults

\* setup_engine with every animal drawn into the ark's cell
InitMove ==
    /\ InitTurn
    /\ \A a \in Animals : a \in cell_animals[CellOf(ArkPoint)]

SpecMove == InitMove /\ [][NextMove]_vars

\* ------------------------------------------- strategies that stay docked
\* grid width and height in cells for the dispersal
DispX == 3
DispY == 2
DispCells == (0 .. DispX - 1) \X (0 .. DispY - 1)

\* setup_engine on that grid
InitDisperse ==
    /\ time_elapsed = 0
    /\ pc = "observe"
    /\ cur = 0
    /\ tracks \in BOOLEAN
    /\ animals \in GeneratedAnimals(AnimalCounts)
    /\ \A a \in Animals :
          a > FirstOf(SpeciesOf(a, AnimalCounts), AnimalCounts) + 1
             => animals[a].gender = "Male"
    /\ species_stats = SpeciesStats(animals, AnimalCounts)
    /\ \E placement \in [Animals -> DispCells] :
          /\ cell_animals = [c \in DispCells |-> {a \in Animals : placement[a] = c}]
          /\ free_animals = [a \in Animals |-> <<a, placement[a]>>]
    /\ hpos = [h \in Helpers |-> ArkPoint]
    /\ ppos = [h \in Helpers |-> ArkPoint]
    /\ flock = [h \in Helpers |-> {}]
    /\ cell_helpers = [c \in DispCells |-> IF c = CellOf(ArkPoint) THEN Helpers ELSE {}]
    /\ ark_animals = {}
    /\ obtained = <<>>
    /\ error = "none"
    /\ result = -1
    /\ sights = [h \in Helpers |-> <<>>]
    /\ last_messages = [h \in Helpers |-> "None"]
    /\ messages_to = [h \in Helpers |-> <<>>]
    /\ snap_sight = "none"
    /\ call = NoCall
    /\ NoTurn

\* the Action values of a strategy that never leaves the ark
StayActions ==
    {[type |-> "None"],
     [type |-> "Move", x |-> ArkPoint[1], y |-> ArkPoint[2]]}
    \cup {[type |-> "Obtain", animal |-> a] : a \in Animals}
    \cup {[type |-> "Release", animal |-> a] : a \in Animals}

\* one iteration of the action loop with such a strategy
GetActionStay ==
    /\ pc = "act"
    /\ \E action \in StayActions : Match(action)
    /\ UNCHANGED turnvars

NextDisperse ==
    \/ ObserveTurn
    \/ GetActionStay
    \/ ResolveObtains
    \/ Disperse
    \/ GetResults

SpecDisperse == InitDisperse /\ [][NextDisperse]_vars

\* the elements of a set of numbers in ascending order
RECURSIVE Ascending(_)
Ascending(S) ==
    IF S = {} THEN <<>>
    ELSE LET m == CHOOSE x \in S : \A y \in S : x <= y
         IN  <<m>> \o Ascending(S \ {m})

\* get_results on the ark contents a run can end with: any set of the animals
\* of a configuration, every helper docked, the other animals free
ScoreConfigs ==
    {counts \in UNION {[1 .. n -> 2 .. MaxScoreAnimals] : n \in 1 .. MaxScoreSpecies} :
        SumSeq(counts) <= MaxScoreAnimals}

InitScore ==
    /\ time_elapsed = Time
    /\ pc = "done"
    /\ cur = NumHelpers - 1
    /\ tracks = TRUE
    /\ \E counts \in ScoreConfigs :
          /\ animals \in GeneratedAnimals(counts)
          /\ species_stats = SpeciesStats(animals, counts)
    /\ ark_animals \in SUBSET (DOMAIN animals)
    /\ cell_animals = [c \in Cells |->
                          IF c = CellOf(ArkPoint)
                          THEN (DOMAIN animals) \ ark_animals ELSE {}]
    /\ free_animals =
          LET free == Ascending((DOMAIN animals) \ ark_animals)
          IN  [i \in 1 .. Len(free) |-> <<free[i], CellOf(ArkPoint)>>]
    /\ hpos = [h \in Helpers |-> ArkPoint]
    /\ ppos = [h \in Helpers |-> ArkPoint]
    /\ flock = [h \in Helpers |-> {}]
    /\ cell_helpers = [c \in Cells |-> IF c = CellOf(ArkPoint) THEN Helpers ELSE {}]
    /\ obtained = <<>>
    /\ error = "none"
    /\ result = -1
    /\ sights = [h \in Helpers |-> <<>>]
    /\ last_messages = [h \in Helpers |-> "None"]
    /\ messages_to = [h \in Helpers |-> <<>>]
    /\ snap_sight = "none"
    /\ call = NoCall
    /\ NoTurn

SpecScore == InitScore /\ [][GetResults]_vars

\* -------------------------------------------------- the message exchange
\* the message exchange of the turns of a run on a grid WideX by WideY, the
\* helpers along the row of the ark, every animal delivered: a turn has
\* passed, so a strategy-held position is where its helper stood a turn ago
\* (or the ark still, for a player class that never updates it) and the
\* helper has made one legal move since
WideCells == (0 .. WideX - 1) \X (0 .. WideY - 1)
WidePoints == (0 .. WideX * Sub - 1) \X (0 .. WideY * Sub - 1)
RowPoints == {p \in WidePoints : p[2] = ArkPoint[2]}

\* the values check_surroundings returns: the ends of the byte range and the
\* integers next to them
WideByteInputs == {-1, 0, ONE_BYTE - 1, ONE_BYTE}

InitMessages ==
    /\ time_elapsed = Time - 2
    /\ pc = "observe"
    /\ cur = NumHelpers - 1
    /\ tracks \in BOOLEAN
    /\ animals \in GeneratedAnimals(AnimalCounts)
    /\ species_stats = SpeciesStats(animals, AnimalCounts)
    /\ ark_animals = Animals
    /\ cell_animals = [c \in WideCells |-> {}]
    /\ free_animals = <<>>
    /\ ppos \in [Helpers -> IF tracks THEN RowPoints ELSE {ArkPoint}]
    /\ ppos[0] = ArkPoint
    /\ hpos \in [Helpers -> RowPoints]
    /\ hpos[0] = ArkPoint
    /\ \A h \in Helpers :
          distance(ppos[h], hpos[h]) <= 2 * MAX_DISTANCE_KM * Sub * Sub
    /\ flock = [h \in Helpers |-> {}]
    /\ cell_helpers = [c \in WideCells |-> {h \in Helpers : CellOf(hpos[h]) = c}]
    /\ obtained = <<>>
    /\ error = "none"
    /\ result = -1
    /\ sights = [h \in Helpers |-> <<>>]
    /\ last_messages = [h \in Helpers |-> 0]
    /\ messages_to = [h \in Helpers |-> <<>>]
    /\ snap_sight = "none"
    /\ call = NoCall
    /\ NoTurn

ObserveWide ==
    /\ Observe(WideByteInputs)
    /\ UNCHANGED turnvars

\* one iteration of the action loop with a strategy that returns None
ActNone ==
    /\ pc = "act"
    /\ ApplyNone(cur)
    /\ UNCHANGED turnvars

NextMessages ==
    \/ ObserveWide
    \/ ActNone
    \/ ResolveObtains
    \/ Disperse
    \/ GetResults

SpecMessages == InitMessages /\ [][NextMessages]_vars

TypeOK ==
    /\ time_elapsed \in 0 .. Time
    /\ pc \in {"observe", "act", "resolve", "disperse", "done", "results", "aborted"}
    /\ hpos \in [Helpers -> Points]
    /\ ppos \in [Helpers -> Points]
    /\ flock \in [Helpers -> SUBSET Animals]
    /\ cell_animals \in [Cells -> SUBSET Animals]
    /\ ark_animals \subseteq Animals

\* ------------------------------------------------------------------ views
\* Animal.copy: the object itself, or a new object with the gender hidden
copy(a, make_unknown) ==
    IF ~make_unknown
    THEN [obj |-> <<"animal", a>>,
          species_id |-> animals[a].species_id,
          gender |-> animals[a].gender]
    ELSE [obj |-> <<"copy", a>>,
          species_id |-> animals[a].species_id,
          gender |-> "Unknown"]

\* Cell.get_view
get_view(cell, make_unknown) ==
    LET free == {copy(a, make_unknown) : a \in cell_animals[cell]}
        shepherded == {copy(a, make_unknown) :
                          a \in UNION {flock[h] : h \in cell_helpers[cell]}}
    IN  [x |-> cell[1],
         y |-> cell[2],
         animals |-> free \cup shepherded,
         helpers |-> {PlayerView(h) : h \in cell_helpers[cell]}]

\* _create_cellview_at with "or" where the code has "and"
create_cellview_at_or(target_x, target_y, helper_x, helper_y) ==
    get_view(<<target_x, target_y>>,
             ~(helper_x = target_x \/ helper_y = target_y))

\* _create_cellview_at
create_cellview_at(target_x, target_y, helper_x, helper_y) ==
    get_view(<<target_x, target_y>>,
             ~(helper_x = target_x /\ helper_y = target_y))

Max(a, b) == IF a > b THEN a ELSE b
Min(a, b) == IF a < b THEN a ELSE b

\* Sight.cell_is_in_sight
cell_is_in_sight(self, x, y) ==
    LET \* the per-axis distance, in lattice units
        axis(real, c) ==
            IF real < c * Sub THEN c * Sub - real
            ELSE IF c * Sub - real <= Sub THEN 0
            ELSE real - c * Sub - Sub
        dx == axis(self.helper_x_real, x)
        dy == axis(self.helper_y_real, y)
    IN  IF ~(/\ self.west <= x /\ x <= self.east
             /\ self.north <= y /\ y <= self.south)
        THEN FALSE
        ELSE dy * dy + dx * dx <= MAX_SIGHT_KM * MAX_SIGHT_KM * Sub * Sub

\* Sight.__init__ on a grid of gx by gy cells: the fields of the object;
\* an entry of rows is <<>> for None and <<v>> for the CellView v
Sight_init(gx, gy, position) ==
    LET helper_x_int == position[1] \div Sub
        helper_y_int == position[2] \div Sub
        box == [helper_x_real |-> position[1],
                helper_y_real |-> position[2],
                helper_x_int |-> helper_x_int,
                helper_y_int |-> helper_y_int,
                west |-> Max(helper_x_int - MAX_SIGHT_KM, 0),
                east |-> Min(helper_x_int + MAX_SIGHT_KM, gx - 1),
                north |-> Max(helper_y_int - MAX_SIGHT_KM, 0),
                south |-> Min(helper_y_int + MAX_SIGHT_KM, gy - 1)]
    IN  [box |-> box,
         rows |-> [r \in 1 .. box.south - box.north + 1 |->
                     [k \in 1 .. box.east - box.west + 1 |->
                         LET x == box.west + k - 1
                             y == box.north + r - 1
                         IN  IF cell_is_in_sight(box, x, y)
                             THEN <<create_cellview_at(x, y, helper_x_int,
                                                       helper_y_int)>>
                             ELSE <<>>]]]

\* get_cellview_at that returns the entry without the None test
get_cellview_at_unchecked(self, x, y) ==
    IF ~(/\ self.box.west <= x /\ x <= self.box.east
         /\ self.box.north <= y /\ y <= self.box.south)
    THEN <<"raise", "not in player sight">>
    ELSE <<"return", self.rows[y - self.box.north + 1][x - self.box.west + 1]>>

\* Sight.get_cellview_at: the exception raised, or the CellView returned
get_cellview_at(self, x, y) ==
    IF ~(/\ self.box.west <= x /\ x <= self.box.east
         /\ self.box.north <= y /\ y <= self.box.south)
    THEN <<"raise", "not in player sight">>
    ELSE LET cell == self.rows[y - self.box.north + 1][x - self.box.west + 1]
         IN  IF cell = <<>>
             THEN <<"raise", "not in player sight">>
             ELSE <<"return", cell>>

\* iteration with the loop over x outside the loop over y
RECURSIVE iter_from_by_column(_, _, _)
iter_from_by_column(self, y, x) ==
    IF x > self.box.east THEN <<>>
    ELSE IF y > self.box.south THEN iter_from_by_column(self, self.box.north, x + 1)
    ELSE self.rows[y - self.box.north + 1][x - self.box.west + 1]
         \o iter_from_by_column(self, y + 1, x)

\* Sight.__iter__ from the entry (y, x) on: the CellViews yielded
RECURSIVE iter_from(_, _, _)
iter_from(self, y, x) ==
    IF y > self.box.south THEN <<>>
    ELSE IF x > self.box.east THEN iter_from(self, y + 1, self.box.west)
    ELSE self.rows[y - self.box.north + 1][x - self.box.west + 1]
         \o iter_from(self, y, x + 1)

\* list(sight)
iter(self) == iter_from(self, self.box.north, self.box.west)

\* the Sight of the snapshot for a helper at position p: cell -> CellView
Sight(p) ==
    LET self == Sight_init(X, Y, p)
    IN  [c \in {d \in Cells : get_cellview_at(self, d[1], d[2])[1] = "return"} |->
            get_cellview_at(self, c[1], c[2])[2][1]]

\* ------------------------------------------------------- the Sight queried
\* a strategy's check_surroundings holds the Sight of its snapshot: helper 1
\* anywhere on a grid WideX by WideY, the animals free in the ark cell
InitSight ==
    /\ time_elapsed = Time - 1
    /\ pc = "observe"
    /\ cur = NumHelpers - 1
    /\ tracks = TRUE
    /\ animals \in GeneratedAnimals(AnimalCounts)
    /\ species_stats = SpeciesStats(animals, AnimalCounts)
    /\ ark_animals = {}
    /\ cell_animals = [c \in WideCells |->
                          IF c = CellOf(ArkPoint) THEN Animals ELSE {}]
    /\ free_animals = [a \in Animals |-> <<a, CellOf(ArkPoint)>>]
    /\ \E p \in WidePoints :
          hpos = [h \in Helpers |-> IF h = 1 THEN p ELSE ArkPoint]
    /\ ppos = hpos
    /\ flock = [h \in Helpers |-> {}]
    /\ cell_helpers = [c \in WideCells |-> {h \in Helpers : CellOf(hpos[h]) = c}]
    /\ obtained = <<>>
    /\ error = "none"
    /\ result = -1
    /\ sights = [h \in Helpers |-> <<>>]
    /\ last_messages = [h \in Helpers |-> 0]
    /\ messages_to = [h \in Helpers |-> <<>>]
    /\ snap_sight = Sight_init(WideX, WideY, hpos[1])
    /\ call = NoCall
    /\ NoTurn

\* the coordinates a strategy asks about: the grid and one past each edge
QueryCoords == (-1 .. WideX) \X (-1 .. WideY)

\* no call writes to the Sight, so what a query returns does not depend on
\* the queries before it: a query is taken right after the construction or
\* after an iteration
Fresh == call.method \in {"none", "__iter__"}

\* everything but the record of the last call stays as it is
OnlyCall ==
    UNCHANGED <<time_elapsed, pc, cur, tracks, animals, species_stats, hpos,
                ppos, flock, cell_animals, cell_helpers, free_animals,
                ark_animals, obtained, error, result, msgvars, snap_sight, turnvars>>

\* the strategy calls sight.cell_is_in_sight(x, y)
CheckCell ==
    /\ Fresh
    /\ \E q \in QueryCoords :
          call' = [call EXCEPT
                     !.method = "cell_is_in_sight", !.x = q[1], !.y = q[2],
                     !.ret = <<"return",
                               cell_is_in_sight(snap_sight.box, q[1], q[2])>>]
    /\ OnlyCall

\* the strategy calls sight.get_cellview_at(x, y)
GetCellview ==
    /\ Fresh
    /\ \E q \in QueryCoords :
          call' = [call EXCEPT
                     !.method = "get_cellview_at", !.x = q[1], !.y = q[2],
                     !.ret = get_cellview_at(snap_sight, q[1], q[2])]
    /\ OnlyCall

\* the strategy iterates over the Sight to the end
Iterate ==
    /\ Len(call.iterated) < MaxIterations
    /\ call' = [call EXCEPT
                   !.method = "__iter__", !.x = 0, !.y = 0,
                   !.ret = <<"return", iter(snap_sight)>>,
                   !.iterated = Append(@, iter(snap_sight))]
    /\ OnlyCall

NextSight ==
    \/ CheckCell
    \/ GetCellview
    \/ Iterate

SpecSight == InitSight /\ [][NextSight]_vars

\* ------------------------------------------------------------------ claims
\* the helpers (requesters) of entry i of obtained, as a set
Requesters(i) == {obtained[i][2][k] : k \in 1 .. Len(obtained[i][2])}

\* the keys of the free-animal index
FreeKeys == {free_animals[i][1] : i \in 1 .. Len(free_animals)}

\* every order a list of helpers can be in
Perms(seq) ==
    {[i \in 1 .. Len(seq) |-> seq[f[i]]] :
        f \in {g \in [1 .. Len(seq) -> 1 .. Len(seq)] :
                  \A i, j \in 1 .. Len(seq) : i # j => g[i] # g[j]}}

\* C1: in every reachable state every helper's engine-held flock contains at
\* most MAX_FLOCK_SIZE animals.
C1_FlockCapacity ==
    \A h \in Helpers : Cardinality(flock[h]) <= MAX_FLOCK_SIZE

\* a helper's flock is full after it won an obtain of this turn
C1_Witness ==
    /\ pc = "disperse"
    /\ \E i \in 1 .. Len(obtained) : \E h \in Requesters(i) :
          /\ obtained[i][1] \in flock[h]
          /\ Cardinality(flock[h]) = MAX_FLOCK_SIZE

\* C2: after obtain resolution every requested animal is held by the
\* requester with the lexicographically smallest (flock size before the
\* resolution, helper id), and min picks that helper from the requesters in
\* whatever order they are listed.
C2_ObtainWinner ==
    pc = "disperse" =>
        \A i \in 1 .. Len(obtained) :
            \E w \in Requesters(i) :
                LET a == obtained[i][1]
                    before == [flock EXCEPT ![w] = @ \ {a}]
                IN  /\ a \in flock[w]
                    /\ \A h \in Requesters(i) \ {w} :
                          \/ Cardinality(before[w]) < Cardinality(before[h])
                          \/ /\ Cardinality(before[w]) = Cardinality(before[h])
                             /\ w < h
                    /\ \A p \in Perms(obtained[i][2]) :
                          BestHelper(p, before) = w

\* an animal requested by two helpers went to the one with the higher id,
\* which carried fewer animals
C2_Witness ==
    /\ pc = "disperse"
    /\ \E i \in 1 .. Len(obtained) : \E w, h \in Requesters(i) :
          /\ obtained[i][1] \in flock[w]
          /\ h < w
          /\ Cardinality(flock[w]) - 1 < Cardinality(flock[h])

\* C3: obtain resolution never fails: it ends without an error, and for every
\* requested animal exactly one requester's flock gains it, the other
\* requesters' flocks stay as they were, and the animal is in no cell and no
\* longer in the free-animal index.
C3_ContestedObtain ==
    [][pc = "resolve" =>
          /\ pc' = "disperse"
          /\ error' = "none"
          /\ \A i \in 1 .. Len(obtained) :
                LET a == obtained[i][1]
                IN  /\ Cardinality({h \in Requesters(i) :
                                       flock'[h] = flock[h] \cup {a}
                                       /\ a \notin flock[h]}) = 1
                    /\ \A h \in Requesters(i) :
                          flock'[h] = flock[h] \/ flock'[h] = flock[h] \cup {a}
                    /\ \E c \in Cells :
                          /\ a \in cell_animals[c]
                          /\ cell_animals'[c] =
                                cell_animals[c] \ {obtained[j][1] : j \in 1 .. Len(obtained)}
                    /\ \A c \in Cells : a \notin cell_animals'[c]
                    /\ KeyIndex(free_animals', a) = 0
          /\ \A h \in Helpers :
                (\A i \in 1 .. Len(obtained) : h \notin Requesters(i))
                    => flock'[h] = flock[h]
    ]_vars

\* an animal requested by two helpers has been resolved
C3_Witness ==
    /\ pc = "disperse"
    /\ error = "none"
    /\ \E i \in 1 .. Len(obtained) :
          /\ Len(obtained[i][2]) >= 2
          /\ \E h \in Requesters(i) : obtained[i][1] \in flock[h]

\* the number of places an animal is in
Places(a) ==
    Cardinality({c \in Cells : a \in cell_animals[c]})
    + Cardinality({h \in Helpers : a \in flock[h]})
    + (IF a \in ark_animals THEN 1 ELSE 0)

\* C4: in every reachable state each animal created at setup is in exactly
\* one place: the free set of one cell, the flock of one helper, or the ark.
C4_AnimalConservation ==
    \A a \in Animals : Places(a) = 1

\* one animal is in the ark, one in a flock and one free, late in the run
C4_Witness ==
    /\ time_elapsed >= 2
    /\ ark_animals # {}
    /\ \E h \in Helpers : flock[h] # {}
    /\ \E c \in Cells : cell_animals[c] # {}

\* C5: no step removes an animal from the ark.
C5_ArkMonotonic ==
    [][ark_animals \subseteq ark_animals']_vars

\* the ark received animals in two different unloads
C5_Witness ==
    /\ Cardinality(ark_animals) >= 2
    /\ \E h \in Helpers : h # 0 /\ flock[h] # {} /\ ~is_in_ark(hpos[h])

\* C6: in every terminal state in which some non-Noah helper's engine-tracked
\* position is not the ark position, the score get_results returned is 0.
C6_AllDockedRule ==
    (pc = "results" /\ \E h \in Helpers : h # 0 /\ ~is_in_ark(hpos[h]))
        => result = 0

\* C7: in every terminal state in which every non-Noah helper's engine-tracked
\* position is the ark position, the score get_results returned is the ark's
\* score.
C7_DockedScore ==
    (pc = "results" /\ \A h \in Helpers : h # 0 => is_in_ark(hpos[h]))
        => result = get_score(ark_animals)

\* the number of animals of a species and gender among a set of animals
CountOf(in_ark, sid, g) ==
    Cardinality({a \in in_ark :
        animals[a].species_id = sid /\ animals[a].gender = g})

\* the credit the scoring rule gives one species
SpeciesCredit(in_ark, sid) ==
    IF CountOf(in_ark, sid, "Male") >= 1 /\ CountOf(in_ark, sid, "Female") >= 1
    THEN SCORE_FOR_BOTH_GENDERS_SAVED
    ELSE IF CountOf(in_ark, sid, "Male") + CountOf(in_ark, sid, "Female") >= 1
    THEN SCORE_FOR_EITHER_GENDER_SAVED
    ELSE 0

\* the credits of a set of species, added up
RECURSIVE CreditSum(_, _)
CreditSum(species, in_ark) ==
    IF species = {} THEN 0
    ELSE LET sid == CHOOSE x \in species : TRUE
         IN  SpeciesCredit(in_ark, sid) + CreditSum(species \ {sid}, in_ark)

\* C8: for every ark content the score is the sum over the species of the
\* species table of: the both-genders score with a male and a female in the
\* ark, the either-gender score with one of the two genders, 0 with none;
\* one more animal of a species and gender the ark already holds leaves the
\* score unchanged.
C8_ArkScore ==
    pc = "results" =>
        /\ result = CreditSum(DOMAIN species_stats, ark_animals)
        /\ \A a \in (DOMAIN animals) \ ark_animals :
              (\E b \in ark_animals :
                    /\ animals[b].species_id = animals[a].species_id
                    /\ animals[b].gender = animals[a].gender)
                  => get_score(ark_animals \cup {a}) = result

\* scored: one species with both genders and two males, one with one gender
C8_Witness ==
    /\ pc = "results"
    /\ result = SCORE_FOR_BOTH_GENDERS_SAVED + SCORE_FOR_EITHER_GENDER_SAVED
    /\ \E sid \in DOMAIN species_stats :
          /\ CountOf(ark_animals, sid, "Male") >= 2
          /\ CountOf(ark_animals, sid, "Female") >= 1

\* the ark's score in the current state
ArkScore == get_score(ark_animals)

\* the both-genders score for every species of the species table
MaxArkScore == SCORE_FOR_BOTH_GENDERS_SAVED * Cardinality(DOMAIN species_stats)

\* C9: in every reachable state the ark score is at least 0 and at most the
\* both-genders score times the number of species, and no step lowers it.
C9_ScoreBounds ==
    [][/\ 0 <= ArkScore /\ ArkScore <= MaxArkScore
       /\ 0 <= ArkScore' /\ ArkScore' <= MaxArkScore
       /\ ArkScore <= ArkScore']_vars

\* every animal is in the ark and the score is at its upper bound
C9_Witness ==
    /\ ArkScore = MaxArkScore
    /\ Cardinality(ark_animals) = Cardinality(Animals)

\* the animals a cell really holds: its free animals and the flocks of the
\* helpers whose engine-tracked position is in the cell
TruthAt(c) ==
    cell_animals[c] \cup UNION {flock[k] : k \in {j \in Helpers : CellOf(hpos[j]) = c}}

\* C10: when the Sights are built, in the Sight of any observer, the CellView of a cell other
\* than the observer's own shows every animal with gender Unknown, the
\* CellView of the observer's own cell shows every animal with its real
\* gender, and in both the animals shown are as many, species by species, as
\* the cell's free animals plus the flocks of the helpers in that cell.
C10_GenderRedaction ==
    pc = "observe" =>
    \A h \in Helpers :
        LET sight == Sight(hpos[h])
        IN  \A c \in DOMAIN sight :
                LET shown == sight[c].animals
                IN  /\ c # CellOf(hpos[h]) =>
                          \A v \in shown : v.gender = "Unknown"
                    /\ c = CellOf(hpos[h]) =>
                          /\ \A v \in shown : v.gender # "Unknown"
                          /\ \A sid \in DOMAIN species_stats :
                             \A g \in {"Male", "Female"} :
                                Cardinality({v \in shown :
                                    v.species_id = sid /\ v.gender = g})
                                = CountOf(TruthAt(c), sid, g)
                    /\ Cardinality(shown) = Cardinality(TruthAt(c))
                    /\ \A sid \in DOMAIN species_stats :
                          Cardinality({v \in shown : v.species_id = sid})
                          = Cardinality({a \in TruthAt(c) :
                                            animals[a].species_id = sid})

\* an observer sees another cell that holds a free animal and a helper with
\* an animal, while its own cell holds an animal too
C10_Witness ==
    /\ pc = "observe"
    /\ \E h \in Helpers : \E c \in DOMAIN Sight(hpos[h]) :
          /\ c # CellOf(hpos[h])
          /\ cell_animals[c] # {}
          /\ \E k \in Helpers : CellOf(hpos[k]) = c /\ flock[k] # {}
          /\ cell_animals[CellOf(hpos[h])] # {}

\* --------------------------------------------------- claims on the Sight
\* the per-axis distance of the asymmetric rule between an observer
\* coordinate p and a cell coordinate c, in lattice units
RuleAxis(p, c) ==
    IF p < c * Sub THEN c * Sub - p
    ELSE IF p - c * Sub <= Sub THEN 0
    ELSE p - c * Sub - Sub

\* the cell (x, y) is within MAX_SIGHT_KM of position p by the rule
RuleInSight(p, x, y) ==
    RuleAxis(p[1], x) * RuleAxis(p[1], x) + RuleAxis(p[2], y) * RuleAxis(p[2], y)
        <= MAX_SIGHT_KM * MAX_SIGHT_KM * Sub * Sub

\* C11: for every cell inside the grid, cell_is_in_sight answers true if and
\* only if the squared per-axis distances of the asymmetric rule (cell - p
\* with the observer before the cell, 0 with the observer at most 1 past the
\* cell's start, p - cell - 1 farther past it) add up to at most
\* MAX_SIGHT_KM squared.
C11_SightRule ==
    (call.method = "cell_is_in_sight" /\ <<call.x, call.y>> \in WideCells)
        => (call.ret[2] <=> RuleInSight(hpos[1], call.x, call.y))

\* C12: get_cellview_at(x, y) returns a CellView, with that x and y, if
\* cell_is_in_sight(x, y) is true, and raises the out-of-sight exception if
\* it is false, for coordinates inside and outside the grid.
C12_LookupAgrees ==
    call.method = "get_cellview_at" =>
        IF cell_is_in_sight(snap_sight.box, call.x, call.y)
        THEN /\ call.ret[1] = "return"
             /\ Len(call.ret[2]) = 1
             /\ call.ret[2][1].x = call.x
             /\ call.ret[2][1].y = call.y
        ELSE call.ret = <<"raise", "not in player sight">>

\* a lookup inside the bounding square of a cell out of sight has raised
C12_Witness ==
    /\ call.method = "get_cellview_at"
    /\ call.ret[1] = "raise"
    /\ snap_sight.box.west <= call.x /\ call.x <= snap_sight.box.east
    /\ snap_sight.box.north <= call.y /\ call.y <= snap_sight.box.south

\* C13: every iteration over the Sight yields one CellView for each cell in
\* sight and none for any other cell, the cells in ascending y and, within a
\* y, ascending x; a second iteration yields what the first yielded.
C13_Iteration ==
    \A n \in 1 .. Len(call.iterated) :
        LET yielded == call.iterated[n]
            at(c) == {k \in 1 .. Len(yielded) :
                         yielded[k].x = c[1] /\ yielded[k].y = c[2]}
        IN  /\ \A c \in QueryCoords :
                  Cardinality(at(c)) =
                      IF cell_is_in_sight(snap_sight.box, c[1], c[2]) THEN 1 ELSE 0
            /\ \A k \in 1 .. Len(yielded) :
                  /\ <<yielded[k].x, yielded[k].y>> \in WideCells
                  /\ yielded[k] = create_cellview_at(yielded[k].x, yielded[k].y,
                                        snap_sight.box.helper_x_int,
                                        snap_sight.box.helper_y_int)
            /\ \A k, l \in 1 .. Len(yielded) :
                  k < l => \/ yielded[k].y < yielded[l].y
                           \/ /\ yielded[k].y = yielded[l].y
                              /\ yielded[k].x < yielded[l].x
            /\ yielded = call.iterated[1]

\* a Sight with several rows and a cell of its bounding square out of sight
\* has been iterated twice
C13_Witness ==
    /\ Len(call.iterated) = 2
    /\ snap_sight.box.south > snap_sight.box.north
    /\ Len(call.iterated[2]) >= 2
    /\ \E r \in 1 .. Len(snap_sight.rows) :
          \E k \in 1 .. Len(snap_sight.rows[r]) : snap_sight.rows[r][k] = <<>>

\* ------------------------------------------------- claims on the messages
\* the senders of the messages in a helper's list, message by message
SendersTo(h) ==
    [i \in 1 .. Len(messages_to[h]) |-> messages_to[h][i].from_helper.id]

\* the number of messages from helper k in the list of helper h
MessagesFrom(k, h) ==
    Cardinality({i \in 1 .. Len(messages_to[h]) : SendersTo(h)[i] = k})

\* the engine-tracked positions of two helpers are within the radius
InRange(a, b) ==
    distance(hpos[a], hpos[b]) <= MAX_SIGHT_KM * MAX_SIGHT_KM * Sub * Sub

\* the action loop is about to start: the messages of the turn are built and
\* no helper has moved in this turn yet
MessagesBuilt == pc = "act" /\ cur = 0

\* C14: whatever integers the observation callbacks return, the observation
\* phase does not abort: the turn goes on to the action loop and every helper
\* has a byte in 0..255 recorded for the turn.
C14_ByteMasked ==
    [][pc = "observe" =>
          /\ pc' = "act"
          /\ error' = "none"
          /\ \A h \in Helpers :
                /\ h \in DOMAIN last_messages'
                /\ last_messages'[h] \in 0 .. ONE_BYTE - 1
    ]_vars

\* C15: when the action loop starts, the list of a mobile helper holds, from
\* the mobile helpers, exactly one message for each other one whose
\* engine-tracked position is within the radius of its own and none for any
\* other or for itself, each with the sender's public identity and the byte
\* the sender returned in this turn.
C15_MessageDelivery ==
    MessagesBuilt =>
        \A h \in Helpers \ {0} :
            /\ \A k \in Helpers \ {0} :
                  MessagesFrom(k, h) = IF k # h /\ InRange(k, h) THEN 1 ELSE 0
            /\ \A i \in 1 .. Len(messages_to[h]) :
                  LET msg == messages_to[h][i]
                  IN  /\ msg.from_helper = PlayerView(msg.from_helper.id)
                      /\ msg.contents = last_messages[msg.from_helper.id]

\* C16: when the action loop starts, mobile helper B has a message of mobile
\* helper A if and only if the engine-tracked positions of A and B, which
\* are the positions after the moves of the turn before, are at most the
\* radius apart.
C16_GroundTruthRange ==
    MessagesBuilt =>
        \A a, b \in Helpers \ {0} :
            a # b => ((\E i \in 1 .. Len(messages_to[b]) : SendersTo(b)[i] = a)
                         <=> InRange(a, b))

\* C17: in every turn Noah's message list is empty and no helper's list
\* holds a message of Noah.
C17_NoahOutsideGraph ==
    pc = "act" =>
        /\ messages_to[0] = <<>>
        /\ \A h \in Helpers : MessagesFrom(0, h) = 0

\* C18: when the action loop starts, every message in a helper's list carries
\* the byte its sender returned in this turn, and a helper with no other
\* helper within the radius of its engine-tracked position has an empty list.
C18_NoPersistence ==
    MessagesBuilt =>
        \A h \in Helpers :
            /\ \A i \in 1 .. Len(messages_to[h]) :
                  messages_to[h][i].contents = last_messages[SendersTo(h)[i]]
            /\ (\A k \in Helpers \ {h} : ~InRange(k, h))
                  => messages_to[h] = <<>>

\* ------------------------------------------------------- claims on Noah
\* C19: in every reachable state Noah's position, engine-tracked and
\* strategy-held, is the ark position, Noah's flock is empty and Noah is in
\* the helper set of the ark cell.
C19_NoahStays ==
    /\ hpos[0] = ArkPoint
    /\ ppos[0] = ArkPoint
    /\ flock[0] = {}
    /\ 0 \in cell_helpers[CellOf(ArkPoint)]
    /\ \A c \in Cells \ {CellOf(ArkPoint)} : 0 \notin cell_helpers[c]

\* late in the run Noah's action callback has returned while the other
\* helpers are away from the ark cell, one of them with an animal
C19_Witness ==
    /\ time_elapsed >= 2
    /\ pc = "act"
    /\ cur = 1
    /\ \A h \in Helpers \ {0} : CellOf(hpos[h]) # CellOf(ArkPoint)
    /\ \E h \in Helpers \ {0} : flock[h] # {}

\* what the engine holds of the world
World ==
    <<hpos, flock, cell_animals, cell_helpers, free_animals, ark_animals,
      obtained>>

\* C20: the step of the action loop for Noah either goes on to the next
\* helper with nothing applied, or aborts the run in that turn with the
\* error for an action of Noah and nothing applied; no other step raises
\* that error.
C20_NoahActionFatal ==
    [][/\ (pc = "act" /\ cur = 0) =>
             /\ World' = World
             /\ time_elapsed' = time_elapsed
             /\ \/ pc' \in {"act", "resolve"} /\ error' = "none"
                \/ pc' = "aborted" /\ error' = "noah_acted"
       /\ (error' = "noah_acted" /\ error # "noah_acted") =>
             (pc = "act" /\ KindOf(cur) = "Noah")
    ]_vars

\* the run was aborted for an action of Noah in a turn after the first, with
\* animals in a cell Noah could have asked for
C20_Witness ==
    /\ pc = "aborted"
    /\ error = "noah_acted"
    /\ time_elapsed >= 1
    /\ cell_animals[CellOf(ArkPoint)] # {}

\* ------------------------------------------------- claims on single actions
\* the step is the iteration of the action loop in which helper cur returned
\* action
Returned(action) ==
    /\ pc = "act"
    /\ last_action' = [helper |-> cur, action |-> action]

\* the run was aborted by this step
Aborted == pc' = "aborted" /\ error' # "none"

\* C21: a Release of an animal of the acting helper's flock takes the animal
\* out of that flock and puts it among the animals of the cell of the
\* helper's position, no Animal, other flock or other cell changing; a
\* Release of an animal that is not in the flock aborts the run
C21_Release ==
    [][\A a \in AnimalObjects :
          Returned([type |-> "Release", animal |-> a]) =>
             LET cell == CellOf(hpos[cur])
             IN  IF a \in flock[cur]
                 THEN /\ ~Aborted
                      /\ flock' = [flock EXCEPT ![cur] = @ \ {a}]
                      /\ cell_animals' = [cell_animals EXCEPT ![cell] = @ \cup {a}]
                      /\ \E i \in 1 .. Len(free_animals') :
                            free_animals'[i] = <<a, cell>>
                      /\ animals' = animals
                      /\ UNCHANGED <<hpos, cell_helpers, ark_animals>>
                 ELSE /\ Aborted
                      /\ UNCHANGED World]_vars

\* a helper away from the ark cell has released an animal of its flock
C21_Witness ==
    /\ last_action.action.type = "Release"
    /\ pc = "resolve"
    /\ last_action.helper = cur
    /\ CellOf(hpos[cur]) # CellOf(ArkPoint)
    /\ last_action.action.animal \in cell_animals[CellOf(hpos[cur])]
    /\ ppos[cur] # hpos[cur]

\* C22: an Obtain never changes a flock in the action loop, and it aborts the
\* run, the world unchanged, unless its animal is one of the Animal objects
\* among the animals of the cell of the acting helper's position: a redacted
\* copy, an animal of another cell, of a flock or of the ark is refused
C22_ObtainAntiCheat ==
    [][\A a \in AnimalObjects :
          Returned([type |-> "Obtain", animal |-> a]) =>
             LET cell == CellOf(hpos[cur])
             IN  /\ flock' = flock
                 /\ ~Aborted => a \in Animals /\ a \in cell_animals[cell]
                 /\ (\/ a \notin Animals
                     \/ \E c \in Cells \ {cell} : a \in cell_animals[c]
                     \/ \E h \in Helpers : a \in flock[h]
                     \/ a \in ark_animals)
                       => Aborted /\ UNCHANGED World]_vars

\* the run was aborted by an Obtain of an animal another helper holds, the
\* acting helper's flock not being full
C22_Witness ==
    /\ pc = "aborted"
    /\ error = "obtain_not_in_cell"
    /\ last_action.action.type = "Obtain"
    /\ \E h \in Helpers \ {last_action.helper} :
          last_action.action.animal \in flock[h]

\* C23: an Obtain returned by a helper whose flock holds MAX_FLOCK_SIZE
\* animals aborts the run, and the animal stays where it was: no cell, flock
\* or list of requests changes
C23_ObtainFullFlock ==
    [][\A a \in AnimalObjects :
          (/\ Returned([type |-> "Obtain", animal |-> a])
           /\ Cardinality(flock[cur]) >= MAX_FLOCK_SIZE)
             => Aborted /\ UNCHANGED World]_vars

\* the run was aborted by the Obtain of a free animal of the helper's own
\* cell, the helper holding MAX_FLOCK_SIZE animals
C23_Witness ==
    /\ pc = "aborted"
    /\ error = "obtain_full_flock"
    /\ last_action.action.type = "Obtain"
    /\ Cardinality(flock[last_action.helper]) = MAX_FLOCK_SIZE
    /\ last_action.action.animal
          \in cell_animals[CellOf(hpos[last_action.helper])]

\* C24: every Move the engine accepts has a target within MAX_DISTANCE_KM of
\* the position the engine held for the helper before the Move, every Move
\* to a farther target aborts the run, and no step of a turn changes a
\* helper's position by more than MAX_DISTANCE_KM
C24_MoveBound ==
    [][/\ \A t \in LatticeTargets :
             Returned([type |-> "Move", x |-> t[1], y |-> t[2]]) =>
                IF distance(hpos[cur], t) <= MAX_DISTANCE_KM * MAX_DISTANCE_KM * Sub * Sub
                THEN TRUE
                ELSE Aborted /\ UNCHANGED World
       /\ \A h \in Helpers :
             distance(hpos[h], hpos'[h])
                <= MAX_DISTANCE_KM * MAX_DISTANCE_KM * Sub * Sub]_vars

\* C25: when the engine accepts a Move whose target is the ark's position,
\* that step puts every animal of the helper's flock in the ark and leaves
\* the flock empty
C25_UnloadOnArrival ==
    [][(/\ Returned([type |-> "Move", x |-> ArkPoint[1], y |-> ArkPoint[2]])
        /\ ~Aborted)
          => /\ flock'[cur] = {}
             /\ flock[cur] \subseteq ark_animals']_vars

\* C26: when a turn ends, every helper at the ark's position has an empty
\* flock, whatever it did in the turn, and a step unloads animals of a
\* flock into the ark only for a helper that is in the ark's cell before or
\* after the step
C26_AutoAbsorption ==
    [][/\ pc = "disperse" =>
             \A h \in Helpers : is_in_ark(hpos'[h]) => flock'[h] = {}
       /\ \A h \in Helpers :
             (flock[h] \cap ark_animals') \ ark_animals # {} =>
                \/ CellOf(hpos[h]) = CellOf(ArkPoint)
                \/ CellOf(hpos'[h]) = CellOf(ArkPoint)]_vars

\* C27: the snapshot of a helper carries an ark view exactly when the helper
\* is at the ark as the turn starts: a helper given a view is in the ark's
\* cell, a helper at the ark's position is given one, and the view holds the
\* animals the ark held when the turn started
C27_ArkPreImage ==
    \A h \in DOMAIN snapshots :
       LET given == snapshots[h].ark_view # <<>>
       IN  /\ given =>
                /\ CellOf(turn_start.hpos[h]) = CellOf(ArkPoint)
                /\ snapshots[h].ark_view[1].animals = turn_start.ark_animals
           /\ is_in_ark(turn_start.hpos[h]) => given

\* C28: when a run is aborted, every helper's position and flock, every
\* cell's animals and helpers, the ark's animals and the turn counter are
\* what they were when the aborted turn started
C28_FatalAtomic ==
    pc = "aborted" => TurnState = turn_start

\* what is left of the run: the turns to come and, within the turn, the
\* phases and helpers to come
Remaining ==
    IF pc \in {"results", "aborted"} THEN 0
    ELSE 1 + (Time - time_elapsed) * (NumHelpers + 4)
           + (CASE pc = "observe" -> NumHelpers + 3
                [] pc = "act" -> NumHelpers + 2 - cur
                [] pc = "resolve" -> 2
                [] pc = "disperse" -> 1
                [] OTHER -> 0)

\* C29: the turn counter starts at 0, never exceeds the configured number of
\* turns and goes up by exactly one when a turn ends and at no other step;
\* run_turn is called at most that many times, the snapshots of its k-th
\* call show turn k - 1 to every helper, and a run that is not aborted stops
\* after exactly that many calls: every step uses up what is left of the
\* run, and a step is possible until the results are out
C29_TurnCounting ==
    /\ [](/\ time_elapsed \in 0 .. Time
          /\ turns \in 0 .. Time
          /\ turns = 0 => time_elapsed = 0
          /\ \A h \in DOMAIN snapshots : snapshots[h].time_elapsed = turns - 1
          /\ pc \in {"done", "results"} => turns = Time /\ time_elapsed = Time
          /\ pc \in {"observe", "act", "resolve", "disperse"} => time_elapsed < Time
          /\ pc \notin {"results", "aborted"} => ENABLED NextTurn)
    /\ [][/\ time_elapsed' = time_elapsed + (IF pc = "disperse" THEN 1 ELSE 0)
          /\ turns' = turns + (IF pc = "observe" THEN 1 ELSE 0)
          /\ Remaining' < Remaining]_vars

\* a run of the configured number of turns has ended without an abort, the
\* snapshots of its last turn showing the number of turns less one
C29_Witness ==
    /\ pc = "results"
    /\ error = "none"
    /\ turns = Time
    /\ DOMAIN snapshots = Helpers
    /\ \A h \in Helpers : snapshots[h].time_elapsed = Time - 1

\* C30: the rain flag of a snapshot is true exactly when the turn counter at
\* the start of its turn is at least Time - START_RAIN, all snapshots of a
\* turn carry the same flag, and once a snapshot has shown rain every
\* snapshot built later shows rain
C30_RainFlag ==
    /\ [](\A h \in DOMAIN snapshots :
             /\ snapshots[h].is_raining
                   = (turn_start.time_elapsed >= Time - START_RAIN)
             /\ \A k \in DOMAIN snapshots :
                   snapshots[k].is_raining = snapshots[h].is_raining)
    /\ [][\A h \in DOMAIN snapshots : \A k \in DOMAIN snapshots' :
             snapshots[h].is_raining => snapshots'[k].is_raining]_vars

\* the snapshots of the first turn of rain, a turn after the first, have
\* been built for every helper
C30_Witness ==
    /\ DOMAIN snapshots = Helpers
    /\ turn_start.time_elapsed = Time - START_RAIN
    /\ turn_start.time_elapsed > 0
    /\ \A h \in Helpers : snapshots[h].is_raining

\* ------------------------------------------------ claims on the dispersal
\* the cell of contents ca that holds animal a
CellWith(ca, a) == CHOOSE c \in DOMAIN ca : a \in ca[c]

\* cells that share an edge
Adjacent(c, d) == Abs(c[1] - d[1]) + Abs(c[2] - d[2]) = 1

\* going through the free animals in the engine's order from entry i on, the
\* cells filled as in ca, every animal that is in another cell in post went
\* to an adjacent cell of the grid that held no more animals than any other
\* adjacent cell of its cell at that moment, and the moves lead to post
RECURSIVE MovesExplain(_, _, _)
MovesExplain(i, ca, post) ==
    IF i > Len(free_animals) THEN ca = post
    ELSE LET a == free_animals[i][1]
             c == CellWith(ca, a)
             d == CellWith(post, a)
         IN  IF d = c THEN MovesExplain(i + 1, ca, post)
             ELSE /\ Adjacent(c, d)
                  /\ \A m \in DOMAIN ca :
                        Adjacent(c, m) => Cardinality(ca[d]) <= Cardinality(ca[m])
                  /\ MovesExplain(i + 1,
                                  [ca EXCEPT ![c] = @ \ {a}, ![d] = @ \cup {a}],
                                  post)

\* C31: the dispersal leaves every free animal in its cell or moves it to an
\* adjacent cell of the grid, one that holds the fewest free animals among
\* the adjacent cells at the moment of the move; it changes no flock and
\* not the ark, and an animal that is in no cell stays in no cell
C31_Dispersal ==
    [][pc = "disperse" =>
          /\ \A a \in Animals :
                IF \E c \in DOMAIN cell_animals : a \in cell_animals[c]
                THEN \E d \in DOMAIN cell_animals :
                        /\ a \in cell_animals'[d]
                        /\ \A e \in DOMAIN cell_animals :
                              a \in cell_animals'[e] => e = d
                        /\ \/ d = CellWith(cell_animals, a)
                           \/ Adjacent(CellWith(cell_animals, a), d)
                ELSE \A d \in DOMAIN cell_animals : a \notin cell_animals'[d]
          /\ MovesExplain(1, cell_animals, cell_animals')
          /\ UNCHANGED <<flock, ark_animals, hpos>>]_vars

\* a turn has ended in which an animal left a cell with three adjacent cells
\* that were not equally filled, while another animal was in a flock or in
\* the ark
C31_Witness ==
    /\ pc \in {"observe", "done"}
    /\ time_elapsed > 0
    /\ ark_animals # {}
    /\ \E a \in Animals :
          /\ a \in turn_start.cell_animals[<<1, 0>>]
          /\ a \notin cell_animals[<<1, 0>>]
          /\ \E d \in DOMAIN cell_animals : a \in cell_animals[d]
          /\ \E m, n \in DOMAIN cell_animals :
                /\ Adjacent(<<1, 0>>, m) /\ Adjacent(<<1, 0>>, n)
                /\ Cardinality(turn_start.cell_animals[m])
                      < Cardinality(turn_start.cell_animals[n])

\* ------------------------------------------- run_turn as a function of its
\* inputs: the engine's state as one value, and each part of run_turn as the
\* value it leaves, given what the strategies returned and what random drew
EngineState ==
    [time_elapsed |-> time_elapsed, pc |-> pc, cur |-> cur, tracks |-> tracks,
     hpos |-> hpos, ppos |-> ppos, flock |-> flock,
     cell_animals |-> cell_animals, cell_helpers |-> cell_helpers,
     free_animals |-> free_animals, ark_animals |-> ark_animals,
     obtained |-> obtained, error |-> error, result |-> result,
     sights |-> sights, last_messages |-> last_messages,
     messages_to |-> messages_to]

\* the observation loop of engine e from helper h on
RECURSIVE EngineObserveFrom(_, _, _, _)
EngineObserveFrom(h, bytes, in_sight, e) ==
    IF h > NumHelpers - 1 THEN e
    ELSE
      LET one_byte_message == bytes[h]
          called == [e EXCEPT !.ppos[h] = IF e.tracks THEN e.hpos[h] ELSE @]
      IN  IF ~(0 <= one_byte_message /\ one_byte_message < ONE_BYTE)
          THEN [called EXCEPT !.error = "bad_message"]
          ELSE EngineObserveFrom(h + 1, bytes, in_sight,
                 [called EXCEPT
                    !.last_messages = DictPut(@, h, one_byte_message),
                    !.messages_to =
                        Broadcast(in_sight[h], Message(h, one_byte_message), @)])

\* run_turn of engine e up to the end of the observation loop
EngineObserve(e, bytes) ==
    LET in_sight == get_sights(e.ppos)
        st == EngineObserveFrom(0, bytes, in_sight,
                  [e EXCEPT !.sights = in_sight,
                            !.last_messages = [x \in {} |-> 0],
                            !.messages_to = [h \in Helpers |-> <<>>]])
    IN  IF st.error = "none"
        THEN [st EXCEPT !.pc = "act", !.obtained = <<>>, !.cur = 0]
        ELSE [st EXCEPT !.pc = "aborted"]

\* a raise inside run_turn of engine e
EngineFatal(e, kind) == [e EXCEPT !.pc = "aborted", !.error = kind]

\* the action loop of engine e moves on
EngineNextHelper(e) ==
    IF e.cur = NumHelpers - 1
    THEN [e EXCEPT !.pc = "resolve"]
    ELSE [e EXCEPT !.pc = "act", !.cur = @ + 1]

\* case Release(animal=a) of the match
EngineRelease(e, h, a) ==
    LET cell == CellOf(e.hpos[h])
    IN  IF a \notin e.flock[h]
        THEN EngineFatal(e, "release_not_in_flock")
        ELSE EngineNextHelper(
               [e EXCEPT !.flock[h] = @ \ {a},
                         !.free_animals = DictSet(@, a, cell),
                         !.cell_animals[cell] = @ \cup {a}])

\* case Obtain(animal=a) of the match
EngineObtain(e, h, a) ==
    LET helper_cell == CellOf(e.hpos[h])
        i == KeyIndex(e.obtained, a)
    IN  IF Cardinality(e.flock[h]) >= MAX_FLOCK_SIZE
        THEN EngineFatal(e, "obtain_full_flock")
        ELSE IF a \notin e.cell_animals[helper_cell]
        THEN EngineFatal(e, "obtain_not_in_cell")
        ELSE EngineNextHelper(
               [e EXCEPT !.obtained =
                    IF i = 0 THEN Append(@, <<a, <<h>>>>)
                    ELSE [@ EXCEPT ![i] = <<a, Append(@[2], h)>>]])

\* case Move(x=x, y=y) of the match
EngineMove(e, h, x, y) ==
    LET target_cell == <<x \div Sub, y \div Sub>>
        curr_cell == CellOf(e.hpos[h])
        left == [e EXCEPT !.cell_helpers[curr_cell] = @ \ {h}]
        entered == [left EXCEPT !.cell_helpers[target_cell] = @ \cup {h}]
        moved == [(IF target_cell # curr_cell THEN entered ELSE e)
                     EXCEPT !.hpos[h] = <<x, y>>]
    IN  IF ~can_move_to(KindOf(h), e.ppos[h], x, y)
        THEN EngineFatal(e, "illegal_move")
        ELSE EngineNextHelper(
               IF is_in_ark(e.ppos[h])
               THEN [moved EXCEPT !.ark_animals = @ \cup e.flock[h],
                                  !.flock[h] = {}]
               ELSE moved)

\* the body of the action loop of engine e for the action helper e.cur returned
EngineMatch(e, action) ==
    IF KindOf(e.cur) = "Noah" /\ action.type # "None"
    THEN EngineFatal(e, "noah_acted")
    ELSE CASE action.type = "None" -> EngineNextHelper(e)
           [] action.type = "Release" -> EngineRelease(e, e.cur, action.animal)
           [] action.type = "Obtain" -> EngineObtain(e, e.cur, action.animal)
           [] action.type = "Move" -> EngineMove(e, e.cur, action.x, action.y)

\* resolution that gives a contested animal to its first requester
RECURSIVE EngineResolveFrom_first(_, _)
EngineResolveFrom_first(i, e) ==
    IF i > Len(e.obtained) THEN e
    ELSE
      LET obt_animal == e.obtained[i][1]
          best_helper == BestHelper_first(e.obtained[i][2], e.flock)
          helper_cell == CellOf(e.hpos[best_helper])
          removed == [e EXCEPT !.cell_animals[helper_cell] = @ \ {obt_animal}]
      IN  IF obt_animal \notin e.cell_animals[helper_cell]
          THEN [e EXCEPT !.error = "KeyError"]
          ELSE IF KeyIndex(e.free_animals, obt_animal) = 0
          THEN [removed EXCEPT !.error = "KeyError"]
          ELSE EngineResolveFrom_first(i + 1,
                 [removed EXCEPT
                    !.free_animals = DictDel(@, obt_animal),
                    !.flock[best_helper] = @ \cup {obt_animal}])

\* the obtain-resolution loop of engine e from entry i of obtained on
RECURSIVE EngineResolveFrom(_, _)
EngineResolveFrom(i, e) ==
    IF i > Len(e.obtained) THEN e
    ELSE
      LET obt_animal == e.obtained[i][1]
          best_helper == BestHelper(e.obtained[i][2], e.flock)
          helper_cell == CellOf(e.hpos[best_helper])
          removed == [e EXCEPT !.cell_animals[helper_cell] = @ \ {obt_animal}]
      IN  IF obt_animal \notin e.cell_animals[helper_cell]
          THEN [e EXCEPT !.error = "KeyError"]
          ELSE IF KeyIndex(e.free_animals, obt_animal) = 0
          THEN [removed EXCEPT !.error = "KeyError"]
          ELSE EngineResolveFrom(i + 1,
                 [removed EXCEPT
                    !.free_animals = DictDel(@, obt_animal),
                    !.flock[best_helper] = @ \cup {obt_animal}])

\* run_turn's loop over obtained, on engine e
EngineResolve(e) ==
    LET st == EngineResolveFrom(1, e)
    IN  [st EXCEPT !.pc = IF st.error = "none" THEN "disperse" ELSE "aborted"]

\* [self.up, self.down, self.left, self.right] of a cell, those that exist
Directions(cell, ca) ==
    LET exists(n) == n \in DOMAIN ca
    IN  SelectSeq(<<<<cell[1], cell[2] - 1>>, <<cell[1], cell[2] + 1>>,
                    <<cell[1] - 1, cell[2]>>, <<cell[1] + 1, cell[2]>>>>,
                  exists)

\* the list Cell.get_emptiest_neighbors returns, on cell contents ca
EmptiestList(cell, ca) ==
    LET dirs == Directions(cell, ca)
        emptiest(n) ==
            \A k \in 1 .. Len(dirs) :
                Cardinality(ca[n]) <= Cardinality(ca[dirs[k]])
    IN  SelectSeq(dirs, emptiest)

\* the values of one draw of choice(): as many as a cell has neighbours here
MaxPick == 3

\* what random draws for one free animal: whether random() falls below
\* ANIMAL_MOVE_PROBABILITY, and then the position choice() takes in its list
Draws ==
    {[move |-> FALSE, pick |-> 0]}
    \cup {[move |-> TRUE, pick |-> r] : r \in 0 .. MaxPick - 1}

\* the dispersal loop of engine e from entry i of free_animals on, draws[i]
\* being what random draws for entry i
RECURSIVE EngineDisperseFrom(_, _, _)
EngineDisperseFrom(i, e, draws) ==
    IF i > Len(e.free_animals) THEN e
    ELSE
      LET animal == e.free_animals[i][1]
          cell == e.free_animals[i][2]
          list == EmptiestList(cell, e.cell_animals)
          neighbor == list[(draws[i].pick % Len(list)) + 1]
      IN  EngineDisperseFrom(i + 1,
            IF draws[i].move
            THEN [e EXCEPT !.cell_animals =
                               [@ EXCEPT ![cell] = @ \ {animal},
                                         ![neighbor] = @ \cup {animal}],
                           !.free_animals[i] = <<animal, neighbor>>]
            ELSE e,
            draws)

\* run_turn's dispersal loop and the end of the turn, on engine e
EngineDisperse(e, draws) ==
    LET st == EngineDisperseFrom(1, e, draws)
    IN  [st EXCEPT !.time_elapsed = @ + 1,
                   !.pc = IF e.time_elapsed + 1 < Time THEN "observe" ELSE "done",
                   !.sights = [h \in Helpers |-> <<>>],
                   !.messages_to = [h \in Helpers |-> <<>>]]

\* Engine.get_results on engine e
EngineResults(e) ==
    [e EXCEPT !.result = IF \A h \in Helpers : is_in_ark(e.ppos[h])
                         THEN get_score(e.ark_animals)
                         ELSE 0,
              !.pc = "results"]

EngineWorld(e) == [e EXCEPT !.ppos = <<>>, !.tracks = FALSE]

\* engine e run with strategies whose position field is the engine-tracked
\* position
Honest(e) == [e EXCEPT !.ppos = e.hpos]

\* C33: the engine never trusts a strategy's own state.  Whatever position
\* the strategy objects hold, every step leaves the world it leaves when they
\* hold the engine-tracked positions, for every byte and every action the
\* strategies can return: the same delivered messages, the same outcome of a
\* Move and of its unloading, the same score; and the ark view is given
\* exactly to the helpers whose engine-tracked position is the ark's.
C33_EngineTracked ==
    /\ pc = "observe" =>
          /\ \A bytes \in [Helpers -> ByteInputs] :
                EngineWorld(EngineObserve(EngineState, bytes))
                   = EngineWorld(EngineObserve(Honest(EngineState), bytes))
          /\ \A h \in Helpers :
                HelperSurroundingsSnapshot(h).ark_view # <<>>
                   <=> is_in_ark(hpos[h])
    /\ pc = "act" =>
          \A action \in Actions :
              EngineWorld(EngineMatch(EngineState, action))
                 = EngineWorld(EngineMatch(Honest(EngineState), action))
    /\ pc = "done" =>
          EngineWorld(EngineResults(EngineState))
             = EngineWorld(EngineResults(Honest(EngineState)))

\* ------------------------------------- strategies that write the snapshot
\* the engine's variables take the values of engine e
Becomes(e) ==
    /\ time_elapsed' = e.time_elapsed
    /\ pc' = e.pc
    /\ cur' = e.cur
    /\ tracks' = e.tracks
    /\ hpos' = e.hpos
    /\ ppos' = e.ppos
    /\ flock' = e.flock
    /\ cell_animals' = e.cell_animals
    /\ cell_helpers' = e.cell_helpers
    /\ free_animals' = e.free_animals
    /\ ark_animals' = e.ark_animals
    /\ obtained' = e.obtained
    /\ error' = e.error
    /\ result' = e.result
    /\ sights' = e.sights
    /\ last_messages' = e.last_messages
    /\ messages_to' = e.messages_to

\* what a callback does to the set in snapshot.flock: nothing, or it empties
\* the set and puts the first animal in
Mutations == {[op |-> "none"], [op |-> "replace", animal |-> 1]}

\* the set s after mutation m
Mutated(s, m) ==
    CASE m.op = "none" -> s
      [] m.op = "replace" -> {m.animal}

\* a snapshot built around hi.flock itself
SharesFlock_alias == TRUE

\* whether snapshot.flock is the object hi.flock: run_turn passes
\* hi.flock.copy(), a new set
SharesFlock == FALSE

\* one iteration of the action loop with a strategy that, in get_action,
\* first writes the flock of the snapshot it was given in this turn
GetActionMutating ==
    /\ pc = "act"
    /\ \E m \in Mutations, action \in StayActions :
          LET written == IF SharesFlock
                         THEN [EngineState EXCEPT !.flock[cur] = Mutated(@, m)]
                         ELSE EngineState
          IN  /\ Becomes(EngineMatch(written, action))
              /\ snapshots' = [snapshots EXCEPT ![cur].flock = Mutated(@, m)]
              /\ last_action' = [helper |-> cur, action |-> action]
    /\ UNCHANGED <<animals, species_stats, sightvars, turn_start, turns>>

NextSnapshot ==
    \/ ObserveTurn
    \/ GetActionMutating
    \/ ResolveObtains
    \/ Disperse
    \/ GetResults

SpecSnapshot == InitMove /\ [][NextSnapshot]_vars

ActionOrders ==
    {o \in [1 .. NumHelpers -> Helpers] :
        \A i, j \in 1 .. NumHelpers : o[i] = o[j] => i = j}

\* the action loop of engine e taking the helpers in the given order from
\* its k-th place on, acts[h] being the action helper h returns
RECURSIVE ActionLoopIn(_, _, _, _)
ActionLoopIn(order, acts, e, k) ==
    IF k > NumHelpers \/ e.error # "none" THEN e
    ELSE ActionLoopIn(order, acts,
                      EngineMatch([e EXCEPT !.cur = order[k]], acts[order[k]]),
                      k + 1)

\* C35: action validation does not depend on the other helpers' actions of
\* the same turn.  When the action loop begins, whatever actions the helpers
\* are about to return, the loop accepts them all in one processing order of
\* the helpers exactly if it accepts them all in every other order.
C35_OrderIndependent ==
    (pc = "act" /\ cur = 0) =>
        \A acts \in {f \in [Helpers -> Actions] : f[0].type = "None"} :
            \A o1, o2 \in ActionOrders :
                ActionLoopIn(o1, acts, EngineState, 1).error = "none"
                   <=> ActionLoopIn(o2, acts, EngineState, 1).error = "none"

\* ---------------------------------------------------------------- C36
\* the point <<x, y>> lies on the grid
OnGrid(x, y) == 0 <= x /\ x < X * Sub /\ 0 <= y /\ y < Y * Sub

\* C36: helper positions stay on the grid and cell occupancy tracks them.
\* In every state every helper's position is on the grid and a helper is in
\* the helper set of a cell exactly if that cell is the floor of its position,
\* so it is in exactly one; and a Move whose target is off the grid is fatal.
C36_OnGridInOneCell ==
    /\ [](\A h \in Helpers :
             /\ OnGrid(hpos[h][1], hpos[h][2])
             /\ \A c \in DOMAIN cell_helpers :
                   h \in cell_helpers[c] <=> c = CellOf(hpos[h])
             /\ Cardinality({c \in DOMAIN cell_helpers :
                                h \in cell_helpers[c]}) = 1)
    /\ [][\A t \in LatticeTargets :
             (Returned([type |-> "Move", x |-> t[1], y |-> t[2]])
                 /\ ~OnGrid(t[1], t[2]))
                => (Aborted /\ hpos' = hpos /\ cell_helpers' = cell_helpers)]_vars

\* one helper has moved into the other cell, and the run was then aborted by
\* a Move past the right edge of the grid
C36_Witness ==
    /\ pc = "aborted"
    /\ last_action.action.type = "Move"
    /\ last_action.action.x = X * Sub
    /\ \E h \in Helpers :
          /\ CellOf(hpos[h]) # CellOf(ArkPoint)
          /\ h \in cell_helpers[CellOf(hpos[h])]

\* ---------------------------------------------------------------- C37
\* C37: the free-animal index agrees with the grid at the end of every turn.
\* When a turn has ended, an animal is a key of free_animals exactly if it is
\* in the animal set of some cell, that cell is the one recorded for it and
\* the only one, and no animal of a flock or of the ark is a key.
C37_FreeIndex ==
    pc \in {"observe", "done"} =>
        \A a \in Animals :
            /\ KeyIndex(free_animals, a) # 0
                  <=> \E c \in DOMAIN cell_animals : a \in cell_animals[c]
            /\ \A c \in DOMAIN cell_animals :
                  a \in cell_animals[c]
                     => free_animals[KeyIndex(free_animals, a)][2] = c
            /\ \A i, j \in 1 .. Len(free_animals) :
                  free_animals[i][1] = free_animals[j][1] => i = j
            /\ (a \in ark_animals \/ \E h \in Helpers : a \in flock[h])
                  => KeyIndex(free_animals, a) = 0

\* a turn has ended in which an animal was released by the helper that
\* carried it and obtained by another helper
C37_Witness ==
    /\ pc = "observe"
    /\ time_elapsed > 0
    /\ \E a \in Animals, h1, h2 \in Helpers :
          /\ h1 # h2
          /\ a \in turn_start.flock[h1]
          /\ a \in flock[h2]

\* ---------------------------------------------------------------- C38
\* Engine.times: run_turn appends one cost where it increments time_elapsed;
\* a cost is a wall-clock reading, kept here as the turn it was taken in
times == [i \in 1 .. time_elapsed |-> i]

\* get_results that returns the recorded costs whatever the docking
get_results_times_always == times

\* the list get_results returns next to the score
get_results_times ==
    IF \A h \in Helpers : is_in_ark(ppos[h]) THEN times ELSE <<>>

\* C38 as stated: once get_results has returned, the cost list it returned
\* has one entry per executed turn, whether the score is the ark's score or
\* was forced to 0.
C38_OneCostPerTurn ==
    pc = "results" => Len(get_results_times) = Time

\* C38: once get_results has returned, the cost list it returned has one
\* entry per executed turn if get_results found every helper docked and
\* returned the ark's score, and is empty if it returned 0 for the docking.
C38_CostsOrNone ==
    pc = "results" =>
        IF \A h \in Helpers : is_in_ark(ppos[h])
        THEN /\ Len(get_results_times) = Time
             /\ Len(get_results_times) = time_elapsed
             /\ result = get_score(ark_animals)
        ELSE /\ get_results_times = <<>>
             /\ result = 0

\* get_results has returned 0 because a helper was found away from the ark
C38_Witness ==
    /\ pc = "results"
    /\ result = 0
    /\ time_elapsed = Time
    /\ \E h \in Helpers : ~is_in_ark(ppos[h])

\* ---------------------------------------------------------------- C39
\* helper a is handed a message sent by helper b
ReceivesFrom(a, b) ==
    \E i \in 1 .. Len(messages_to[a]) : messages_to[a][i].from_helper.id = b

\* C39: the message exchange is symmetric and ordered.  In every turn whose
\* observation loop has ended and whose messages are handed to get_action,
\* helper a receives a message from helper b exactly if b receives one from
\* a, and the messages in each helper's list are in ascending order of the
\* sender's id.
C39_SymmetricOrdered ==
    pc = "act" =>
        /\ \A a, b \in Helpers : ReceivesFrom(a, b) <=> ReceivesFrom(b, a)
        /\ \A h \in Helpers :
              \A i, j \in 1 .. Len(messages_to[h]) :
                  i < j => messages_to[h][i].from_helper.id
                              < messages_to[h][j].from_helper.id

\* a helper is handed two messages while their two senders are out of each
\* other's range
C39_Witness ==
    /\ pc = "act"
    /\ \E a, b, h \in Helpers :
          /\ a < b
          /\ ReceivesFrom(h, a) /\ ReceivesFrom(h, b)
          /\ ~ReceivesFrom(a, b)

\* --------------------------------------- the one-byte code of group 7
\* bit definitions of players/group7/comms_player.py
LOCAL_BIT == 1
ARK_BIT == 2
GENDER_BIT == 4
SPECIES_BITS == 248

\* a & b and a | b on non-negative integers, bit by bit
RECURSIVE BitAnd(_, _)
BitAnd(a, b) ==
    IF a = 0 \/ b = 0 THEN 0
    ELSE (a % 2) * (b % 2) + 2 * BitAnd(a \div 2, b \div 2)

RECURSIVE BitOr(_, _)
BitOr(a, b) ==
    IF a = 0 THEN b
    ELSE IF b = 0 THEN a
    ELSE (IF a % 2 = 1 \/ b % 2 = 1 THEN 1 ELSE 0)
         + 2 * BitOr(a \div 2, b \div 2)

\* a << n and a >> n
ShiftLeft(a, n) == a * 2 ^ n
ShiftRight(a, n) == a \div 2 ^ n

\* encode_message that shifts the species id by four bits
encode_message_shift4(species_id, gender, from_ark) ==
    LET msg == BitOr(ShiftLeft(species_id, 4), ShiftLeft(gender, 2))
    IN  BitAnd(IF from_ark THEN BitOr(msg, ARK_BIT) ELSE BitOr(msg, LOCAL_BIT),
               255)

\* encode_message: gender is an int, from_ark a bool
encode_message(species_id, gender, from_ark) ==
    LET msg == BitOr(ShiftLeft(species_id, 3), ShiftLeft(gender, 2))
    IN  BitAnd(IF from_ark THEN BitOr(msg, ARK_BIT) ELSE BitOr(msg, LOCAL_BIT),
               255)

\* decode_message: <<species_id, gender, from_ark, from_local>>
decode_message(msg_int) ==
    <<ShiftRight(BitAnd(msg_int, SPECIES_BITS), 3),
      ShiftRight(BitAnd(msg_int, GENDER_BIT), 2),
      BitAnd(msg_int, ARK_BIT) # 0,
      BitAnd(msg_int, LOCAL_BIT) # 0>>

\* a group 7 player before the first turn, about to encode the fields it
\* holds: call keeps the fields, the last call made and what it returned
InitCodec ==
    /\ time_elapsed = 0
    /\ pc = "observe"
    /\ cur = 0
    /\ tracks = TRUE
    /\ animals = [a \in Animals |->
                    [species_id |-> SpeciesOf(a, AnimalCounts),
                     gender |-> IF a = FirstOf(SpeciesOf(a, AnimalCounts),
                                               AnimalCounts) + 1
                                THEN "Female" ELSE "Male"]]
    /\ species_stats = SpeciesStats(animals, AnimalCounts)
    /\ cell_animals = [c \in Cells |-> IF c = CellOf(ArkPoint) THEN Animals ELSE {}]
    /\ free_animals = [a \in Animals |-> <<a, CellOf(ArkPoint)>>]
    /\ hpos = [h \in Helpers |-> ArkPoint]
    /\ ppos = [h \in Helpers |-> ArkPoint]
    /\ flock = [h \in Helpers |-> {}]
    /\ cell_helpers = [c \in Cells |-> IF c = CellOf(ArkPoint) THEN Helpers ELSE {}]
    /\ ark_animals = {}
    /\ obtained = <<>>
    /\ error = "none"
    /\ result = -1
    /\ sights = [h \in Helpers |-> <<>>]
    /\ last_messages = [h \in Helpers |-> "None"]
    /\ messages_to = [h \in Helpers |-> <<>>]
    /\ snap_sight = "none"
    /\ \E species_id \in 0 .. 31, gender \in 0 .. 1, from_ark \in BOOLEAN :
          call = [method |-> "none", species_id |-> species_id,
                  gender |-> gender, from_ark |-> from_ark, ret |-> <<>>]
    /\ NoTurn

\* the player's own state changes only
OnlyCodec ==
    UNCHANGED <<time_elapsed, pc, cur, tracks, animals, species_stats, hpos,
                ppos, flock, cell_animals, cell_helpers, free_animals,
                ark_animals, obtained, error, result, msgvars, snap_sight, turnvars>>

\* the player encodes the fields it holds
EncodeCall ==
    /\ call.method = "none"
    /\ call' = [call EXCEPT
                  !.method = "encode_message",
                  !.ret = encode_message(call.species_id, call.gender,
                                         call.from_ark)]
    /\ OnlyCodec

\* a player decodes the byte
DecodeCall ==
    /\ call.method = "encode_message"
    /\ call' = [call EXCEPT !.method = "decode_message",
                            !.ret = decode_message(call.ret)]
    /\ OnlyCodec

NextCodec == EncodeCall \/ DecodeCall

SpecCodec == InitCodec /\ [][NextCodec]_vars

\* ---------------------------------------------------------------- C40
\* C40: round trip of group 7's one-byte code.  For every species id in
\* 0..31, gender in {0, 1} and from_ark in {true, false}, encode_message
\* returns a value in 0..255, and decode_message of that value returns the
\* species id, the gender, from_ark and the negation of from_ark.
C40_RoundTrip ==
    /\ call.method = "encode_message" => call.ret \in 0 .. 255
    /\ call.method = "decode_message" =>
          call.ret = <<call.species_id, call.gender, call.from_ark,
                       ~call.from_ark>>

\* the highest species id, gender 1, sent from the ark, encoded and decoded
C40_Witness ==
    /\ call.method = "decode_message"
    /\ call.species_id = 31
    /\ call.gender = 1
    /\ call.from_ark
====
